---- MODULE Spec2Model ----
(***************************************************************************)
(* Model of the np relay server (relay/main.go): the session registry,    *)
(* the TCP and HTTP join handlers, the two copy loops of a session, the    *)
(* session teardown and the idle sweep; and of the multiplexed connection  *)
(* manager (multiplex.go): its registry of connections, encoders and       *)
(* decoders, SendTo, SendToAll, ReceiveFrom and the receive loops; of the *)
(* TCP pipe that uses the manager (TCPPipe) and of the UDP pipe with its   *)
(* ISNP/OK handshake (NetworkPipe).  The relay runs under Spec, the        *)
(* manager under MuxSpec, the TCP pipe under PipeSpec and PipeFairSpec,    *)
(* the UDP pipe under UdpSpec.                                             *)
(*                                                                         *)
(* Every critical section on RelayServer.sessionsMu is one atomic step;    *)
(* each transport Read/Write/Close made outside the lock is a step of its  *)
(* own, so that handlers, copy loops and the sweep interleave as the       *)
(* goroutines of the program do.  The remote side of a connection is the   *)
(* environment: a Write on an open connection succeeds or fails, a Read    *)
(* yields the client's next bytes, ends the stream, or blocks.             *)
(***************************************************************************)
EXTENDS Integers, Sequences, FiniteSets, TLC

\* ---------------------------------------------------------------- bounds
\* connections that are accepted by the relay during one run
NumConns == 3
\* payload bytes a client sends after its session identifier, in a run in
\* which NumConns connections arrive
MaxSend == 1
\* RelayConfig.IdleTimeout, in clock units (one unit is one sweep period)
IdleTimeout == 1
\* size of the copy buffer, in bytes (4096 in the program)
BufSize == 2
\* payload bytes a client sends in a run in which a single pair connects
MaxStream == 2

Conns == 1..NumConns
SessionIDs == {"abc"}
NoConn == 0
NoSession == 0

\* the transports a client may come over
Kinds == {"tcp", "http"}

\* What the clients do in one run: NumConns TCP connections that send up to
\* MaxSend bytes each, NumConns connections of either transport that send
\* their session identifier and no more, or one pair of connections of
\* either transport that send longer streams.
Crowd == [conns |-> NumConns, bytes |-> MaxSend, kinds |-> {"tcp"}]
Workloads == {Crowd,
              [conns |-> NumConns, bytes |-> 0, kinds |-> Kinds],
              [conns |-> 2, bytes |-> MaxStream, kinds |-> Kinds]}

VARIABLES
    sessions,   \* RelayServer.sessions: identifier -> session object (or NoSession)
    sess,       \* the RelaySession objects ever allocated, by allocation order
    idle,       \* per session object: time.Now() minus its LastUsed
    rel,        \* per session object: its relayData goroutine and two copy loops
    torn,       \* per session object: who removed it from the registry, in order
    kind,       \* per connection: "new" (not accepted), "tcp" or "http"
    hpc,        \* per connection: position of its join handler
    sid,        \* per connection: the session identifier its handler read
    hs,         \* per connection: the session pointer its handler holds
    closes,     \* per connection: number of Close calls made on it
    sent,       \* per connection: payload bytes of the client Read so far
    wlog,       \* per connection: the Write calls made on it, in order
    load        \* the workload of the run: what the clients do

\* the MultiplexManager, the objects it refers to and the goroutines that call it
VARIABLES
    connections,  \* MultiplexManager.connections: id -> connection (or NoConn)
    encoders,     \* MultiplexManager.encoders: id -> encoder (or NoCodec)
    decoders,     \* MultiplexManager.decoders: id -> decoder (or NoCodec)
    compression,  \* MultiplexManager.compression
    mutex,        \* MultiplexManager.mutex: the goroutine that holds it, or Unlocked
    conn,         \* the connections ever registered: Close calls made on each
    enc,          \* the encoders ever created, by creation order
    dec,          \* the decoders ever created, by creation order
    task,         \* per goroutine: the manager call it is in and its position
    fan,          \* the goroutine that calls SendToAll: its position and payload
    handled,      \* the handler(id, data) calls the receive loops have made, in order
    budget        \* manager calls that are still to come in this run

\* the TCPPipe and the goroutines of its Start
VARIABLES
    mode,         \* Config.mode: "receiver" or "sender"
    multi,        \* Config.multiConn: the pipe has a manager
    gone,         \* the accepted connections that their peer has closed
    shut,         \* the accepted connections that handleClient has closed
    clients,      \* TCPPipe.clients: the accepted connections that are registered
    hc,           \* per accepted connection: position of the accept loop or of handleClient
    main,         \* position of handleSend
    starter       \* the goroutine handleSend starts to run StartListening

\* the UDP NetworkPipe, its goroutines and the datagrams around it
VARIABLES
    umode,        \* Config.mode of the UDP pipe
    peer,         \* what listens at config.host:config.port
    probe,        \* the isNPRunning call of handleSend: position and result
    sender,       \* position of handleSend
    receiver,     \* handleReceive: its position and the datagram it has read
    net,          \* the datagrams that were sent and are neither read nor lost
    stdout,       \* the os.Stdout.Write calls of handleReceive, in order
    sentto,       \* the WriteToUDP calls made on np.conn, in order
    answers,      \* what the remote has sent back to the socket of isNPRunning
    quota         \* lines of standard input and datagrams of peers still to come

\* an httpConnection, the request and the response behind it, and the calls
\* made on it
VARIABLES
    hcon,         \* the httpConnection: its fields closed and readBuf
    reqBody,      \* the bytes that c.r.Body has not delivered yet
    resp,         \* the bytes written to the response c.w
    last,         \* what the last call on the connection returned
    todo          \* calls that are still to come in this run

\* the message history of the web interface and the goroutines that record
\* into it
VARIABLES
    messageBuffer, \* the package variable: its fields Messages and Size
    web,           \* whether Start has called StartWebUI
    msg,           \* per goroutine: the Message it has built and not yet added
    clock,         \* what time.Now() returns next
    recorded,      \* the messages added so far, in the order of their adding
    records        \* calls of RecordMessage that are still to come

mvars == <<connections, encoders, decoders, compression, mutex, conn, enc, dec, task, fan,
           handled, budget>>

rvars == <<sessions, sess, idle, rel, torn, kind, hpc, sid, hs, closes, sent, wlog, load>>

pvars == <<mode, multi, gone, shut, clients, hc, main, starter>>

hvars == <<hcon, reqBody, resp, last, todo>>

uvars == <<umode, peer, probe, sender, receiver, net, stdout, sentto, answers, quota>>

wvars == <<messageBuffer, web, msg, clock, recorded, records>>

\* what the relay, the manager, the two pipes, the adapter and the web
\* interface each leave alone
nonrelay == <<mvars, pvars, uvars, hvars, wvars>>
nonmux == <<rvars, pvars, uvars, hvars, wvars>>
nonpipe == <<rvars, uvars, hvars, wvars>>
nonudp == <<rvars, mvars, pvars, hvars, wvars>>
nonhttp == <<rvars, mvars, pvars, uvars, wvars>>
nonweb == <<rvars, mvars, pvars, uvars, hvars>>

vars == <<rvars, mvars, pvars, uvars, hvars, wvars>>

\* ------------------------------------------------------------ connections
closed(c) == closes[c] > 0

\* A Write call: a handshake literal written by a join handler, which
\* discards the result of the call, or a chunk written by copyData, which
\* ends its loop when the call fails.
Ack(a) == [ack |-> a, data |-> <<>>, failed |-> FALSE]
Data(d, okay) == [ack |-> "", data |-> d, failed |-> ~okay]

\* net.Conn.Write / httpConnection.Write: fails on a connection that was
\* closed; on an open one the outcome is the transport's.
WriteOutcomes(c) == IF closed(c) THEN {FALSE} ELSE {TRUE, FALSE}

\* the Write calls made on c, with entry e appended
Written(c, e) == [wlog EXCEPT ![c] = Append(@, e)]

\* Close is called on every connection of S
CloseAll(cl, S) == [c \in Conns |-> IF c \in S THEN cl[c] + 1 ELSE cl[c]]

Min(a, b) == IF a < b THEN a ELSE b

\* ---------------------------------------------------------------- sessions
Clients(s) == sess[s].Clients
Endpoints(s) == {Clients(s)[1], Clients(s)[2]} \ {NoConn}
Registered(s) == sessions[sess[s].ID] = s

\* A copy loop: where it is, the chunk it holds, for how long a chunk it has
\* read has waited for LastUsed to be set, the time left to the deadline of
\* the Read it is in and, once it has ended, the error that ended it.
Stopped(err) == [pc |-> "done", buf |-> <<>>, age |-> 0, dl |-> 0, why |-> err]
NotStarted == [pc |-> "off", buf |-> <<>>, age |-> 0, dl |-> 0, why |-> ""]

Init ==
    /\ sessions = [id \in SessionIDs |-> NoSession]
    /\ sess = <<>>
    /\ idle = <<>>
    /\ rel = <<>>
    /\ torn = <<>>
    /\ kind = [c \in Conns |-> "new"]
    /\ hpc = [c \in Conns |-> "new"]
    /\ sid = [c \in Conns |-> ""]
    /\ hs = [c \in Conns |-> NoSession]
    /\ closes = [c \in Conns |-> 0]
    /\ sent = [c \in Conns |-> 0]
    /\ wlog = [c \in Conns |-> <<>>]
    /\ load \in Workloads

\* ------------------------------------------------------------ join handlers
\* A connection arrives and its handler learns the session identifier:
\* handleTCPConnection reads it from the connection (lines 107-114; when that
\* Read fails the handler returns), handleHTTPRelay takes it from the query
\* (line 366).  Connections arrive in the order of their numbers.
Arrive(c) ==
    /\ hpc[c] = "new"
    /\ c <= load.conns
    /\ \A b \in 1..(c - 1) : hpc[b] # "new"
    /\ \E k \in load.kinds :
        /\ kind' = [kind EXCEPT ![c] = k]
        /\ \/ \E id \in SessionIDs :
                /\ sid' = [sid EXCEPT ![c] = id]
                /\ hpc' = [hpc EXCEPT ![c] = "join"]
           \/ /\ k = "tcp"
              /\ sid' = sid
              /\ hpc' = [hpc EXCEPT ![c] = "ret"]
    /\ UNCHANGED <<sessions, sess, idle, rel, torn, hs, closes, sent, wlog, load, nonrelay>>

\* After its last statement handleTCPConnection still has its deferred Close
\* to run; handleHTTPConnection has returned.
Last(c) == IF kind[c] = "tcp" THEN "ret" ELSE "done"

\* faulty variant: the handler never finds a session full
SessionFull_Never(s) == FALSE

\* faulty variant: a session is found full only once its relay was started
SessionFull_OnceRelaying(s) ==
    Clients(s)[1] # NoConn /\ Clients(s)[2] # NoConn /\ rel[s].pc # "off"

\* handleTCPConnection line 146 / handleHTTPConnection line 413
SessionFull(s) == Clients(s)[1] # NoConn /\ Clients(s)[2] # NoConn

\* a fresh RelaySession (its LastUsed is time.Now(): idle time 0)
NewSession(id, c) == [ID |-> id, Clients |-> <<c, NoConn>>]
NewRelay == [pc |-> "off", loop |-> <<NotStarted, NotStarted>>]

\* The critical section of a join handler (sessionsMu held from the lookup
\* to the Unlock of the branch taken): create the session, reject the
\* connection, or store it as the second client.
JoinSession(c) ==
    /\ hpc[c] = "join"
    /\ LET id == sid[c]
           s == sessions[id]
       IN IF s = NoSession
          THEN /\ sess' = Append(sess, NewSession(id, c))
               /\ idle' = Append(idle, 0)
               /\ rel' = Append(rel, NewRelay)
               /\ torn' = Append(torn, <<>>)
               /\ sessions' = [sessions EXCEPT ![id] = Len(sess) + 1]
               /\ hs' = [hs EXCEPT ![c] = Len(sess) + 1]
               /\ hpc' = [hpc EXCEPT ![c] = "ackWaiting"]
          ELSE IF SessionFull(s)
          THEN /\ hpc' = [hpc EXCEPT ![c] = "ackFull"]
               /\ hs' = [hs EXCEPT ![c] = s]
               /\ UNCHANGED <<sessions, sess, idle, rel, torn>>
          ELSE /\ sess' = [sess EXCEPT ![s].Clients[2] = c]
               /\ idle' = [idle EXCEPT ![s] = 0]
               /\ hs' = [hs EXCEPT ![c] = s]
               /\ hpc' = [hpc EXCEPT ![c] = "notify0"]
               /\ UNCHANGED <<sessions, rel, torn>>
    /\ UNCHANGED <<kind, sid, closes, sent, wlog, load, nonrelay>>

\* conn.Write([]byte("WAITING")), then return
AckWaiting(c) ==
    /\ hpc[c] = "ackWaiting"
    /\ wlog' = Written(c, Ack("WAITING"))
    /\ hpc' = [hpc EXCEPT ![c] = Last(c)]
    /\ UNCHANGED <<sessions, sess, idle, rel, torn, kind, sid, hs, closes, sent, load, nonrelay>>

\* conn.Write([]byte("SESSION_FULL")), then return
AckFull(c) ==
    /\ hpc[c] = "ackFull"
    /\ wlog' = Written(c, Ack("SESSION_FULL"))
    /\ hpc' = [hpc EXCEPT ![c] = Last(c)]
    /\ UNCHANGED <<sessions, sess, idle, rel, torn, kind, sid, hs, closes, sent, load, nonrelay>>

\* faulty variant: the relay is started before the second acknowledgment is written
NotifyFirst_RelayFirst(c) ==
    /\ hpc[c] = "notify0"
    /\ wlog' = [wlog EXCEPT ![Clients(hs[c])[1]] = Append(@, Ack("CONNECTED"))]
    /\ rel' = [rel EXCEPT ![hs[c]] =
                 [pc |-> "wait",
                  loop |-> <<[NotStarted EXCEPT !.pc = "read", !.dl = IdleTimeout],
                             [NotStarted EXCEPT !.pc = "read", !.dl = IdleTimeout]>>]]
    /\ hpc' = [hpc EXCEPT ![c] = "notify1"]
    /\ UNCHANGED <<sessions, sess, idle, torn, kind, sid, hs, closes, sent, load, nonrelay>>

\* session.Clients[0].Write([]byte("CONNECTED"))
NotifyFirst(c) ==
    /\ hpc[c] = "notify0"
    /\ LET c0 == Clients(hs[c])[1]
       IN wlog' = Written(c0, Ack("CONNECTED"))
    /\ hpc' = [hpc EXCEPT ![c] = "notify1"]
    /\ UNCHANGED <<sessions, sess, idle, rel, torn, kind, sid, hs, closes, sent, load, nonrelay>>

\* src.SetReadDeadline(time.Now().Add(rs.config.IdleTimeout)): the time left
\* until the deadline; the HTTP adapter accepts the deadline and ignores it.
ReadDeadline(c) == IF kind[c] = "tcp" THEN IdleTimeout ELSE 0

\* copyData at the top of its loop: the deadline is set and the Read begins
Reading(c) == [pc |-> "read", buf |-> <<>>, age |-> 0, dl |-> ReadDeadline(c), why |-> ""]

\* go rs.relayData(session): the goroutine does wg.Add(2) and starts the two
\* copy loops, client 0 -> client 1 and client 1 -> client 0.
StartRelay(s) ==
    [rel EXCEPT ![s] = [pc |-> "wait",
                        loop |-> <<Reading(Clients(s)[1]), Reading(Clients(s)[2])>>]]

\* session.Clients[1].Write([]byte("CONNECTED")); go rs.relayData(session)
NotifySecond(c) ==
    /\ hpc[c] = "notify1"
    /\ LET c1 == Clients(hs[c])[2]
       IN wlog' = Written(c1, Ack("CONNECTED"))
    /\ rel' = StartRelay(hs[c])
    /\ hpc' = [hpc EXCEPT ![c] = Last(c)]
    /\ UNCHANGED <<sessions, sess, idle, torn, kind, sid, hs, closes, sent, load, nonrelay>>

\* The connections a returning handler closes: handleTCPConnection runs its
\* "defer conn.Close()"; handleHTTPConnection closes nothing.
ClosedOnReturn(c) == IF kind[c] = "tcp" THEN {c} ELSE {}

\* the handler of a TCP connection returns
Return(c) ==
    /\ hpc[c] = "ret"
    /\ closes' = CloseAll(closes, ClosedOnReturn(c))
    /\ hpc' = [hpc EXCEPT ![c] = "done"]
    /\ UNCHANGED <<sessions, sess, idle, rel, torn, kind, sid, hs, sent, wlog, load, nonrelay>>

\* ---------------------------------------------------------------- copyData
\* loop d of session s copies from Clients[d] to the other client
Src(s, d) == Clients(s)[d]
Dst(s, d) == Clients(s)[3 - d]
Loop(s, d) == rel[s].loop[d]
Relays == 1..Len(rel)
Dirs == {1, 2}

\* the Read of a TCP connection fails once its deadline has passed
TimedOut(s, d) == kind[Src(s, d)] = "tcp" /\ Loop(s, d).dl = 0

\* the next n payload bytes of client c
Payload(c, n) == [i \in 1..n |-> 10 * c + sent[c] + i]

\* the errors a Read of loop d can return now: the connection was closed,
\* the remote side has ended the stream or the transport failed, the
\* deadline has passed
ReadErrors(s, d) ==
    IF closed(Src(s, d)) THEN {"closed"}
    ELSE {"eof"} \cup (IF TimedOut(s, d) THEN {"timeout"} ELSE {})

\* n, err := src.Read(buffer): the client's next bytes, as many as have
\* arrived and fit the buffer, or an error, which ends the loop.
CopyRead(s, d) ==
    /\ Loop(s, d).pc = "read"
    /\ LET c == Src(s, d)
       IN \/ /\ ~closed(c)
             /\ \E n \in 1..Min(load.bytes - sent[c], BufSize) :
                 /\ rel' = [rel EXCEPT ![s].loop[d].pc = "touch",
                                       ![s].loop[d].buf = Payload(c, n),
                                       ![s].loop[d].dl = 0]
                 /\ sent' = [sent EXCEPT ![c] = @ + n]
          \/ /\ \E err \in ReadErrors(s, d) :
                   rel' = [rel EXCEPT ![s].loop[d] = Stopped(err)]
             /\ sent' = sent
    /\ UNCHANGED <<sessions, sess, idle, torn, kind, hpc, sid, hs, closes, wlog, load, nonrelay>>

\* faulty variant: copyData goes on to the write and leaves LastUsed as it is
CopyTouch_NoUpdate(s, d) ==
    /\ Loop(s, d).pc = "touch"
    /\ rel' = [rel EXCEPT ![s].loop[d].pc = "write", ![s].loop[d].age = 0]
    /\ UNCHANGED <<sessions, sess, idle, torn, kind, hpc, sid, hs, closes, sent, wlog, load,
                   nonrelay>>

\* session.mu.Lock(); session.LastUsed = time.Now(); session.mu.Unlock()
CopyTouch(s, d) ==
    /\ Loop(s, d).pc = "touch"
    /\ idle' = [idle EXCEPT ![s] = 0]
    /\ rel' = [rel EXCEPT ![s].loop[d].pc = "write", ![s].loop[d].age = 0]
    /\ UNCHANGED <<sessions, sess, torn, kind, hpc, sid, hs, closes, sent, wlog, load, nonrelay>>

\* faulty variant: a failed write is tried again
CopyWrite_Retry(s, d) ==
    /\ Loop(s, d).pc = "write"
    /\ LET c == Dst(s, d)
       IN \E ok \in WriteOutcomes(c) :
           /\ wlog' = Written(c, Data(Loop(s, d).buf, ok))
           /\ rel' = [rel EXCEPT ![s].loop[d] =
                        IF ok THEN Reading(Src(s, d)) ELSE Loop(s, d)]
    /\ UNCHANGED <<sessions, sess, idle, torn, kind, hpc, sid, hs, closes, sent, load, nonrelay>>

\* _, err = dst.Write(buffer[:n]): a failed write ends the loop
CopyWrite(s, d) ==
    /\ Loop(s, d).pc = "write"
    /\ LET c == Dst(s, d)
       IN \E ok \in WriteOutcomes(c) :
           /\ wlog' = Written(c, Data(Loop(s, d).buf, ok))
           /\ rel' = [rel EXCEPT ![s].loop[d] =
                        IF ok THEN Reading(Src(s, d)) ELSE Stopped("write")]
    /\ UNCHANGED <<sessions, sess, idle, torn, kind, hpc, sid, hs, closes, sent, load, nonrelay>>

\* ------------------------------------------------------------ closeSession
\* the registry as closeSession and the sweep see and change it
Registry == [sessions |-> sessions, idle |-> idle, closes |-> closes, torn |-> torn]

\* the session closeSession works on: session, exists := rs.sessions[sessionID]
Lookup(r, id) == r.sessions[id]

\* faulty variant: closeSession closes the connections and leaves the map entry
closeSession_NoDelete(r, id) ==
    LET t == Lookup(r, id)
    IN IF t = NoSession
       THEN r
       ELSE [r EXCEPT !.closes = CloseAll(r.closes, Endpoints(t)),
                      !.torn = [r.torn EXCEPT ![t] = Append(@, "close")]]

\* faulty variant: closeSession closes the first client of the session only
closeSession_FirstOnly(r, id) ==
    LET t == Lookup(r, id)
    IN IF t = NoSession
       THEN r
       ELSE [sessions |-> [r.sessions EXCEPT ![id] = NoSession],
             idle |-> [r.idle EXCEPT ![t] = 0],
             closes |-> CloseAll(r.closes, {Clients(t)[1]}),
             torn |-> [r.torn EXCEPT ![t] = Append(@, "close")]]

\* closeSession(sessionID) applied to registry r
closeSession(r, id) ==
    LET t == Lookup(r, id)
    IN IF t = NoSession
       THEN r
       ELSE [sessions |-> [r.sessions EXCEPT ![id] = NoSession],
             idle |-> [r.idle EXCEPT ![t] = 0],
             closes |-> CloseAll(r.closes, Endpoints(t)),
             torn |-> [r.torn EXCEPT ![t] = Append(@, "close")]]

\* relayData has returned; its copy loops returned before it
Finished == [pc |-> "done", loop |-> <<Stopped(""), Stopped("")>>]

\* faulty variant: relayData waits for one of its copy loops only
BothDone_Either(s) == Loop(s, 1).pc = "done" \/ Loop(s, 2).pc = "done"

\* wg.Wait() of relayData
BothDone(s) == Loop(s, 1).pc = "done" /\ Loop(s, 2).pc = "done"

\* faulty variant: relayData tears down the session it holds, without looking it up
\* in the registry
RelayClose_OwnSession(s) ==
    /\ rel[s].pc = "wait"
    /\ BothDone(s)
    /\ sessions' = [sessions EXCEPT ![sess[s].ID] = NoSession]
    /\ idle' = [idle EXCEPT ![s] = 0]
    /\ closes' = CloseAll(closes, Endpoints(s))
    /\ torn' = [torn EXCEPT ![s] = Append(@, "close")]
    /\ rel' = [rel EXCEPT ![s] = Finished]
    /\ UNCHANGED <<sess, kind, hpc, sid, hs, sent, wlog, load, nonrelay>>

\* relayData after its copy loops: wg.Wait(); rs.closeSession(session.ID)
RelayClose(s) ==
    /\ rel[s].pc = "wait"
    /\ BothDone(s)
    /\ LET r == closeSession(Registry, sess[s].ID)
       IN /\ sessions' = r.sessions
          /\ idle' = r.idle
          /\ closes' = r.closes
          /\ torn' = r.torn
    /\ rel' = [rel EXCEPT ![s] = Finished]
    /\ UNCHANGED <<sess, kind, hpc, sid, hs, sent, wlog, load, nonrelay>>

\* --------------------------------------------------------- cleanupSessions
\* idle := now.Sub(session.LastUsed); idle > rs.config.IdleTimeout
Idle(s) == idle[s] > IdleTimeout

\* the identifiers one sweep evicts
Evicted == {id \in SessionIDs : sessions[id] # NoSession /\ Idle(sessions[id])}

\* faulty variant: the sweep deletes the idle sessions and closes only their first
\* client
cleanupSessions_FirstOnly ==
    /\ Evicted # {}
    /\ sessions' = [id \in SessionIDs |->
                      IF id \in Evicted THEN NoSession ELSE sessions[id]]
    /\ closes' = CloseAll(closes, {Clients(sessions[id])[1] : id \in Evicted})
    /\ torn' = [t \in DOMAIN torn |->
                  IF \E id \in Evicted : sessions[id] = t
                  THEN Append(torn[t], "sweep") ELSE torn[t]]
    /\ idle' = [t \in DOMAIN idle |->
                  IF \E id \in Evicted : sessions[id] = t THEN 0 ELSE idle[t]]
    /\ UNCHANGED <<sess, rel, kind, hpc, sid, hs, sent, wlog, load, nonrelay>>

\* faulty variant: the sweep closes the clients of the idle sessions and leaves the
\* sessions in the map
cleanupSessions_NoDelete ==
    /\ Evicted # {}
    /\ closes' = CloseAll(closes, UNION {Endpoints(sessions[id]) : id \in Evicted})
    /\ torn' = [t \in DOMAIN torn |->
                  IF \E id \in Evicted : sessions[id] = t
                  THEN Append(torn[t], "sweep") ELSE torn[t]]
    /\ idle' = [t \in DOMAIN idle |->
                  IF \E id \in Evicted : sessions[id] = t THEN 0 ELSE idle[t]]
    /\ UNCHANGED <<sessions, sess, rel, kind, hpc, sid, hs, sent, wlog, load, nonrelay>>

\* One tick of the sweep, under sessionsMu: every idle session has its
\* clients closed and is deleted from the map.
cleanupSessions ==
    /\ Evicted # {}
    /\ sessions' = [id \in SessionIDs |->
                      IF id \in Evicted THEN NoSession ELSE sessions[id]]
    /\ closes' = CloseAll(closes, UNION {Endpoints(sessions[id]) : id \in Evicted})
    /\ torn' = [t \in DOMAIN torn |->
                  IF \E id \in Evicted : sessions[id] = t
                  THEN Append(torn[t], "sweep") ELSE torn[t]]
    /\ idle' = [t \in DOMAIN idle |->
                  IF \E id \in Evicted : sessions[id] = t THEN 0 ELSE idle[t]]
    /\ UNCHANGED <<sess, rel, kind, hpc, sid, hs, sent, wlog, load, nonrelay>>

\* a copy loop one unit of time later: the deadline of its Read is one unit
\* nearer, a chunk that waits for the update of LastUsed one unit older
Later(l) ==
    [l EXCEPT !.dl = IF @ > 0 THEN @ - 1 ELSE 0,
              !.age = IF l.pc = "touch" THEN Min(@ + 1, IdleTimeout + 1) ELSE @]

\* One unit of time passes: every registered session has been idle for one
\* unit more, every pending read deadline is one unit nearer and every chunk
\* read one unit older.  Times are counted up to IdleTimeout + 1,
\* beyond which the program does not distinguish them.  The LastUsed of a
\* session that has left the registry is never read again: its idle time is
\* kept at 0.
Tick ==
    /\ idle' = [s \in DOMAIN idle |->
                  IF Registered(s) THEN Min(idle[s] + 1, IdleTimeout + 1) ELSE idle[s]]
    /\ rel' = [s \in DOMAIN rel |->
                 [rel[s] EXCEPT !.loop[1] = Later(@), !.loop[2] = Later(@)]]
    /\ UNCHANGED <<sessions, sess, torn, kind, hpc, sid, hs, closes, sent, wlog, load, nonrelay>>

Next ==
    \/ \E c \in Conns : Arrive(c)
    \/ \E c \in Conns : JoinSession(c)
    \/ \E c \in Conns : AckWaiting(c)
    \/ \E c \in Conns : AckFull(c)
    \/ \E c \in Conns : NotifyFirst(c)
    \/ \E c \in Conns : NotifySecond(c)
    \/ \E c \in Conns : Return(c)
    \/ \E s \in Relays, d \in Dirs : CopyRead(s, d)
    \/ \E s \in Relays, d \in Dirs : CopyTouch(s, d)
    \/ \E s \in Relays, d \in Dirs : CopyWrite(s, d)
    \/ \E s \in Relays : RelayClose(s)
    \/ cleanupSessions
    \/ Tick

\* =========================================================== multiplex.go
\* ---------------------------------------------------------------- bounds
\* connection ids the application uses
NumIDs == 2
\* connections that are registered with the manager during one run
NumLinks == 2
\* goroutines that call SendTo and ReceiveFrom at the same time
NumTasks == 2
\* manager calls made during one run
MaxCalls == 2
\* len(buffer) of the caller of ReceiveFrom (BUFFER_SIZE, 4096 in the program)
RecvBuf == 3

IDs == 1..NumIDs
Links == 1..NumLinks
Tasks == 1..NumTasks
Unlocked == 0
NoCodec == 0

\* CompressionType; SetCompression is given one of these
NoCompression == "none"
Codecs == {"gzip", "zlib", "zstd"}

\* the magic bytes of the compressed formats
CompressionHeader ==
    [gzip |-> <<31, 139>>, zlib |-> <<120, 156>>, zstd |-> <<40, 181, 47, 253>>]

\* the payload the application sends
Payloads == {<<7, 7, 7>>}

\* -------------------------------------------------- the compression codecs
\* compress/gzip, compress/zlib and zstd stand outside the program.  Their
\* compressed form is modelled as run-length pairs <<count, byte>>: it is
\* not the payload, the decoder inverts it, and a pair list that is cut short
\* or has a zero count does not decode.
RECURSIVE RunLength(_)
RunLength(p) ==
    IF Len(p) <= 1 \/ p[1] # p[2] THEN Len(p) ELSE 1 + RunLength(Tail(p))

RECURSIVE Deflate(_)
Deflate(p) ==
    IF p = <<>> THEN <<>>
    ELSE LET n == RunLength(p)
         IN <<n, p[1]>> \o Deflate(SubSeq(p, n + 1, Len(p)))

WellFormed(z) ==
    /\ Len(z) % 2 = 0
    /\ \A i \in 1..Len(z) : i % 2 = 1 => z[i] > 0

RECURSIVE Inflate(_)
Inflate(z) ==
    IF z = <<>> THEN <<>>
    ELSE [i \in 1..z[1] |-> z[2]] \o Inflate(SubSeq(z, 3, Len(z)))

\* what an encoder of format k emits for payload p up to a flush
Unit(k, p) == CompressionHeader[k] \o Deflate(p)

\* bytes.Equal(data[:len(header)], header), for n >= len(header)
HasHeader(data, k) ==
    LET h == CompressionHeader[k]
    IN Len(data) >= Len(h) /\ SubSeq(data, 1, Len(h)) = h

\* the loop over CompressionHeader in ReceiveFrom: the format whose magic
\* bytes lead the data (no header is a prefix of another)
Sniff(data) ==
    IF \E k \in Codecs : HasHeader(data, k)
    THEN CHOOSE k \in Codecs : HasHeader(data, k)
    ELSE NoCompression

\* the bytes of a compressed unit after its magic bytes
Body(data, k) == SubSeq(data, Len(CompressionHeader[k]) + 1, Len(data))

\* What a Read of a connection can return: plain bytes, a unit a peer
\* compressed, a unit that inflates beyond the receive buffer, a unit whose
\* stream is damaged, a unit that ends with its header.
Incoming ==
    {<<7>>}
    \cup {Unit("gzip", <<7>>)}
    \cup {CompressionHeader["gzip"] \o <<RecvBuf + 1, 7>>}
    \cup {CompressionHeader["zlib"] \o <<1, 7, 1>>}
    \cup {CompressionHeader["zstd"]}

\* ------------------------------------------------------------ the objects
live(c) == conn[c].closes = 0

\* an encoder: its format, what it has taken and not flushed, what it has
\* flushed into the buffer it was created on, whether Close was called on it
NewEncoder(k) == [codec |-> k, pending |-> <<>>, sink |-> <<>>, closed |-> FALSE]

\* a decoder: its format, what is left of the bytes.Reader it was created
\* on, the error it has met, whether Close was called on it
NewDecoder(k, data) ==
    [codec |-> k, src |-> Body(data, k), failed |-> FALSE, closed |-> FALSE]

\* the codec, with the id it was created for and the connection that was
\* registered under the id when it was created
CreatedFor(codec, id, c) == codec @@ [id |-> id, link |-> c]

\* a goroutine: the call it is in (op), whether the call was made by a receive
\* loop, whether it was started by SendToAll, its position, the arguments and
\* locals of the call, and what the call returned
NoCall ==
    [op |-> "", loop |-> FALSE, kid |-> FALSE, pc |-> "idle", id |-> 0,
     data |-> <<>>, link |-> NoConn, codec |-> NoCodec, raw |-> <<>>,
     out |-> <<>>, wrote |-> FALSE, err |-> ""]

\* NewMultiplexManager: empty maps, no compression
MInit ==
    /\ connections = [id \in IDs |-> NoConn]
    /\ encoders = [id \in IDs |-> NoCodec]
    /\ decoders = [id \in IDs |-> NoCodec]
    /\ compression = NoCompression
    /\ mutex = Unlocked
    /\ conn = <<>>
    /\ enc = <<>>
    /\ dec = <<>>
    /\ task = [t \in Tasks |-> NoCall]
    /\ fan = [pc |-> "idle", data |-> <<>>]
    /\ handled = <<>>
    /\ budget = MaxCalls

\* ------------------------------------------------- registry maintenance
\* mm.connections[id] = conn, for a connection that was not registered before
Register(id) ==
    /\ conn' = Append(conn, [closes |-> 0])
    /\ connections' = [connections EXCEPT ![id] = Len(conn) + 1]

\* faulty variant: AddConnection closes the connection that id held before
AddConnection_ClosePrevious(id) ==
    /\ mutex = Unlocked
    /\ Len(conn) < NumLinks
    /\ id <= Len(conn) + 1
    /\ conn' = Append(IF connections[id] = NoConn THEN conn
                      ELSE [conn EXCEPT ![connections[id]].closes = @ + 1],
                      [closes |-> 0])
    /\ connections' = [connections EXCEPT ![id] = Len(conn) + 1]
    /\ UNCHANGED <<encoders, decoders, compression, mutex, enc, dec, task, budget>>
    /\ UNCHANGED <<fan, handled, nonmux>>

\* AddConnection(id, conn), under the lock: a connection that was not
\* registered before is stored under id, whatever id held before.  The
\* application takes its ids into use in the order of their numbers.
AddConnection(id) ==
    /\ mutex = Unlocked
    /\ Len(conn) < NumLinks
    /\ id <= Len(conn) + 1
    /\ Register(id)
    /\ UNCHANGED <<encoders, decoders, compression, mutex, enc, dec, task, budget>>
    /\ UNCHANGED <<fan, handled, nonmux>>

\* SetCompression, called when the manager is set up (part_002 line 398)
SetCompression(k) ==
    /\ compression = NoCompression
    /\ conn = <<>>
    /\ compression' = k
    /\ UNCHANGED <<connections, encoders, decoders, mutex, conn, enc, dec, task, budget>>
    /\ UNCHANGED <<fan, handled, nonmux>>

CloseCodec(codecs, i) == IF i = NoCodec THEN codecs ELSE [codecs EXCEPT ![i].closed = TRUE]

\* faulty variant: RemoveConnection closes and deletes the connection and
\* leaves its encoder and decoder in their maps
RemoveConnection_KeepCodec(id) ==
    IF connections[id] = NoConn
    THEN UNCHANGED <<connections, encoders, decoders, conn, enc, dec>>
    ELSE /\ conn' = [conn EXCEPT ![connections[id]].closes = @ + 1]
         /\ connections' = [connections EXCEPT ![id] = NoConn]
         /\ UNCHANGED <<encoders, decoders, enc, dec>>

\* faulty variant: RemoveConnection deletes the codec entries of id and does
\* not close the codecs
RemoveConnection_NoCodecClose(id) ==
    IF connections[id] = NoConn
    THEN UNCHANGED <<connections, encoders, decoders, conn, enc, dec>>
    ELSE /\ conn' = [conn EXCEPT ![connections[id]].closes = @ + 1]
         /\ encoders' = [encoders EXCEPT ![id] = NoCodec]
         /\ decoders' = [decoders EXCEPT ![id] = NoCodec]
         /\ connections' = [connections EXCEPT ![id] = NoConn]
         /\ UNCHANGED <<enc, dec>>

\* The body of RemoveConnection(id), between Lock and Unlock: the
\* connection, its encoder and its decoder are closed and the three map
\* entries are deleted; nothing happens for an id that is not registered.
RemoveConnection(id) ==
    IF connections[id] = NoConn
    THEN UNCHANGED <<connections, encoders, decoders, conn, enc, dec>>
    ELSE /\ conn' = [conn EXCEPT ![connections[id]].closes = @ + 1]
         /\ enc' = CloseCodec(enc, encoders[id])
         /\ dec' = CloseCodec(dec, decoders[id])
         /\ encoders' = [encoders EXCEPT ![id] = NoCodec]
         /\ decoders' = [decoders EXCEPT ![id] = NoCodec]
         /\ connections' = [connections EXCEPT ![id] = NoConn]

\* the application calls RemoveConnection(id)
CallRemoveConnection(id) ==
    /\ mutex = Unlocked
    /\ RemoveConnection(id)
    /\ UNCHANGED <<compression, mutex, task, budget>>
    /\ UNCHANGED <<fan, handled, nonmux>>

\* faulty variant: Close closes the connections and leaves the codecs open
\* and in their maps
Close_KeepCodecs ==
    /\ conn' = [c \in DOMAIN conn |->
                  IF \E id \in IDs : connections[id] = c
                  THEN [conn[c] EXCEPT !.closes = @ + 1] ELSE conn[c]]
    /\ connections' = [id \in IDs |-> NoConn]
    /\ UNCHANGED <<encoders, decoders, enc, dec>>

\* The body of Close (lines 421-438): every registered connection, its
\* encoder and its decoder are closed, and the three maps are made anew.
Close ==
    /\ conn' = [c \in DOMAIN conn |->
                  IF \E id \in IDs : connections[id] = c
                  THEN [conn[c] EXCEPT !.closes = @ + 1] ELSE conn[c]]
    /\ enc' = [e \in DOMAIN enc |->
                 IF \E id \in IDs : connections[id] # NoConn /\ encoders[id] = e
                 THEN [enc[e] EXCEPT !.closed = TRUE] ELSE enc[e]]
    /\ dec' = [d \in DOMAIN dec |->
                 IF \E id \in IDs : connections[id] # NoConn /\ decoders[id] = d
                 THEN [dec[d] EXCEPT !.closed = TRUE] ELSE dec[d]]
    /\ connections' = [id \in IDs |-> NoConn]
    /\ encoders' = [id \in IDs |-> NoCodec]
    /\ decoders' = [id \in IDs |-> NoCodec]

\* the application calls Close on a manager that has connections
CallClose ==
    /\ mutex = Unlocked
    /\ \E id \in IDs : connections[id] # NoConn
    /\ Close
    /\ UNCHANGED <<compression, mutex, task, budget>>
    /\ UNCHANGED <<fan, handled, nonmux>>

\* ------------------------------------------------------------------ SendTo
At(t, op, pc) == task[t].op = op /\ task[t].pc = pc

\* goroutine t is free for a call; calls are made by the first free goroutine
Free(t) == task[t].pc = "idle" /\ \A u \in 1..(t - 1) : task[u].pc # "idle"

\* the call has returned err (and, for a ReceiveFrom, n = Len(out))
Done(r, err) == [r EXCEPT !.pc = "done", !.err = err]

\* a goroutine of the application calls SendTo(id, p)
CallSendTo(t, id, p) ==
    /\ Free(t)
    /\ budget > 0
    /\ budget' = budget - 1
    /\ task' = [task EXCEPT ![t] = [NoCall EXCEPT !.op = "SendTo", !.pc = "lock",
                                                   !.id = id, !.data = p]]
    /\ UNCHANGED <<connections, encoders, decoders, compression, mutex, conn, enc, dec>>
    /\ UNCHANGED <<fan, handled, nonmux>>

\* faulty variant: SendTo creates the encoder of id before it looks the
\* connection up
SendToLock_EncoderFirst(t) ==
    /\ At(t, "SendTo", "lock")
    /\ mutex = Unlocked
    /\ LET r == task[t]
           c == connections[r.id]
           e == encoders[r.id]
           fresh == compression # NoCompression /\ e = NoCodec
           now == IF fresh THEN Len(enc) + 1 ELSE e
       IN /\ enc' = IF fresh THEN Append(enc, CreatedFor(NewEncoder(compression), r.id, c)) ELSE enc
          /\ encoders' = IF fresh THEN [encoders EXCEPT ![r.id] = now] ELSE encoders
          /\ task' = [task EXCEPT ![t] =
                        IF c = NoConn THEN Done(r, "not found")
                        ELSE IF compression = NoCompression
                        THEN [r EXCEPT !.pc = "write", !.link = c, !.out = r.data]
                        ELSE [r EXCEPT !.pc = "compress", !.link = c, !.codec = now]]
    /\ UNCHANGED <<connections, decoders, compression, mutex, conn, dec, budget>>
    /\ UNCHANGED <<fan, handled, nonmux>>

\* SendTo from Lock to Unlock (lines 194-242): the lookup of the connection
\* and, with compression, of the encoder, which is created when id has none
SendToLock(t) ==
    /\ At(t, "SendTo", "lock")
    /\ mutex = Unlocked
    /\ LET r == task[t]
           c == connections[r.id]
           e == encoders[r.id]
       IN IF c = NoConn
          THEN /\ task' = [task EXCEPT ![t] = Done(r, "not found")]
               /\ UNCHANGED <<encoders, enc>>
          ELSE IF compression = NoCompression
          THEN /\ task' = [task EXCEPT ![t] = [r EXCEPT !.pc = "write", !.link = c,
                                                         !.out = r.data]]
               /\ UNCHANGED <<encoders, enc>>
          ELSE IF e = NoCodec
          THEN /\ enc' = Append(enc, CreatedFor(NewEncoder(compression), r.id, c))
               /\ encoders' = [encoders EXCEPT ![r.id] = Len(enc) + 1]
               /\ task' = [task EXCEPT ![t] = [r EXCEPT !.pc = "compress", !.link = c,
                                                         !.codec = Len(enc) + 1]]
          ELSE /\ task' = [task EXCEPT ![t] = [r EXCEPT !.pc = "compress", !.link = c,
                                                         !.codec = e]]
               /\ UNCHANGED <<encoders, enc>>
    /\ UNCHANGED <<connections, decoders, compression, mutex, conn, dec, budget>>
    /\ UNCHANGED <<fan, handled, nonmux>>

\* A call on an encoder or a decoder does its work; on one that another
\* goroutine has closed it may also fail.
UseOutcomes(codec) == IF codec.closed THEN {TRUE, FALSE} ELSE {TRUE}

\* what the encoder emits for p: the magic bytes lead its stream
Emitted(e, p) ==
    IF e.sink = <<>> /\ e.pending = <<>> THEN Unit(e.codec, p) ELSE Deflate(p)

\* writer.Write(data) (line 251), after the Unlock
Compress(t) ==
    /\ At(t, "SendTo", "compress")
    /\ LET r == task[t]
           e == r.codec
       IN \E ok \in UseOutcomes(enc[e]) :
           IF ok
           THEN /\ enc' = [enc EXCEPT ![e].pending = @ \o Emitted(enc[e], r.data)]
                /\ task' = [task EXCEPT ![t].pc = "flush"]
           ELSE /\ enc' = enc
                /\ task' = [task EXCEPT ![t] = Done(r, "compress")]
    /\ UNCHANGED <<connections, encoders, decoders, compression, mutex, conn, dec, budget>>
    /\ UNCHANGED <<fan, handled, nonmux>>

\* flusher.Flush() (lines 257-262): the encoder empties itself into the
\* buffer it was created on.  The buffer of line 245, whose bytes SendTo
\* writes to the connection, is written by nobody: it is empty.
Flush(t) ==
    /\ At(t, "SendTo", "flush")
    /\ LET r == task[t]
           e == r.codec
       IN \E ok \in UseOutcomes(enc[e]) :
           IF ok
           THEN /\ enc' = [enc EXCEPT ![e].sink = @ \o enc[e].pending,
                                      ![e].pending = <<>>]
                /\ task' = [task EXCEPT ![t] = [r EXCEPT !.pc = "write", !.out = <<>>]]
           ELSE /\ enc' = enc
                /\ task' = [task EXCEPT ![t] = Done(r, "flush")]
    /\ UNCHANGED <<connections, encoders, decoders, compression, mutex, conn, dec, budget>>
    /\ UNCHANGED <<fan, handled, nonmux>>

\* conn.Write (lines 204 and 265): fails on a closed connection; on an open
\* one the outcome is the transport's
Write(t) ==
    /\ At(t, "SendTo", "write")
    /\ \E ok \in (IF live(task[t].link) THEN {TRUE, FALSE} ELSE {FALSE}) :
         task' = [task EXCEPT ![t] = [Done(task[t], IF ok THEN "" ELSE "write")
                                        EXCEPT !.wrote = TRUE]]
    /\ UNCHANGED <<connections, encoders, decoders, compression, mutex, conn, enc, dec, budget>>
    /\ UNCHANGED <<fan, handled, nonmux>>

\* ------------------------------------------------------------- ReceiveFrom
\* a goroutine of the application calls ReceiveFrom(id, buffer)
CallReceiveFrom(t, id) ==
    /\ Free(t)
    /\ budget > 0
    /\ budget' = budget - 1
    /\ task' = [task EXCEPT ![t] = [NoCall EXCEPT !.op = "ReceiveFrom", !.pc = "lock",
                                                   !.id = id]]
    /\ UNCHANGED <<connections, encoders, decoders, compression, mutex, conn, enc, dec>>
    /\ UNCHANGED <<fan, handled, nonmux>>

\* ReceiveFrom takes the lock and looks the connection up (lines 280-285);
\* for a registered id it goes on to Read with the lock held
ReceiveLock(t) ==
    /\ At(t, "ReceiveFrom", "lock")
    /\ mutex = Unlocked
    /\ LET r == task[t]
           c == connections[r.id]
       IN IF c = NoConn
          THEN /\ task' = [task EXCEPT ![t] = Done(r, "not found")]
               /\ mutex' = mutex
          ELSE /\ task' = [task EXCEPT ![t] = [r EXCEPT !.pc = "read", !.link = c]]
               /\ mutex' = t
    /\ UNCHANGED <<connections, encoders, decoders, compression, conn, enc, dec, budget>>
    /\ UNCHANGED <<fan, handled, nonmux>>

\* ReceiveFrom after a Read that returned data (lines 294-350), up to the
\* Unlock: plain data is returned as it is; for compressed data the decoder
\* of id is looked up, and created on this data when id has none
Classified(t, data) ==
    LET r == [task[t] EXCEPT !.raw = data]
        k == Sniff(data)
        d == decoders[r.id]
    IN IF k = NoCompression
       THEN /\ task' = [task EXCEPT ![t] = [Done(r, "") EXCEPT !.out = data]]
            /\ UNCHANGED <<decoders, dec>>
       ELSE IF d # NoCodec
       THEN /\ task' = [task EXCEPT ![t] = [r EXCEPT !.pc = "decode", !.codec = d]]
            /\ UNCHANGED <<decoders, dec>>
       ELSE IF Body(data, k) = <<>>
       THEN /\ task' = [task EXCEPT ![t] = Done(r, "create")]
            /\ UNCHANGED <<decoders, dec>>
       ELSE /\ dec' = Append(dec, CreatedFor(NewDecoder(k, data), r.id, r.link))
            /\ decoders' = [decoders EXCEPT ![r.id] = Len(dec) + 1]
            /\ task' = [task EXCEPT ![t] = [r EXCEPT !.pc = "decode",
                                                      !.codec = Len(dec) + 1]]

\* n, err := conn.Read(buffer) returns (line 288), with the lock held since
\* the lookup: an error (the connection was closed, the peer has ended the
\* stream), or what the peer has sent.  Until the Read returns the goroutine
\* stays here, and the lock stays held.
Read(t) ==
    /\ At(t, "ReceiveFrom", "read")
    /\ mutex' = Unlocked
    /\ \/ /\ task' = [task EXCEPT ![t] = Done(task[t], "read")]
          /\ UNCHANGED <<decoders, dec>>
       \/ /\ live(task[t].link)
          /\ \E data \in Incoming : Classified(t, data)
    /\ UNCHANGED <<connections, encoders, compression, conn, enc, budget>>
    /\ UNCHANGED <<fan, handled, nonmux>>

\* faulty variant: ReceiveFrom does not compare the decompressed size with the
\* buffer and reports the decompressed length
Decode_NoSizeCheck(t) ==
    /\ At(t, "ReceiveFrom", "decode")
    /\ LET r == task[t]
           d == r.codec
           bytes == Inflate(dec[d].src)
       IN \E ok \in UseOutcomes(dec[d]) :
           IF ~ok \/ dec[d].failed \/ ~WellFormed(dec[d].src)
           THEN /\ dec' = [dec EXCEPT ![d].failed = TRUE, ![d].src = <<>>]
                /\ task' = [task EXCEPT ![t] = Done(r, "decode")]
           ELSE /\ dec' = [dec EXCEPT ![d].src = <<>>]
                /\ task' = [task EXCEPT ![t] = [Done(r, "") EXCEPT !.out = bytes]]
    /\ UNCHANGED <<connections, encoders, decoders, compression, mutex, conn, enc, budget>>
    /\ UNCHANGED <<fan, handled, nonmux>>

\* io.Copy(&buf, decoder) and the copy into the caller's buffer (lines
\* 352-375), after the Unlock.  The decoder reads what is left of the data
\* it was created on.
Decode(t) ==
    /\ At(t, "ReceiveFrom", "decode")
    /\ LET r == task[t]
           d == r.codec
           bytes == Inflate(dec[d].src)
       IN \E ok \in UseOutcomes(dec[d]) :
           IF ~ok \/ dec[d].failed \/ ~WellFormed(dec[d].src)
           THEN /\ dec' = [dec EXCEPT ![d].failed = TRUE, ![d].src = <<>>]
                /\ task' = [task EXCEPT ![t] = Done(r, "decode")]
           ELSE /\ dec' = [dec EXCEPT ![d].src = <<>>]
                /\ task' = [task EXCEPT ![t] =
                              IF Len(bytes) > RecvBuf
                              THEN Done(r, "too small")
                              ELSE [Done(r, "") EXCEPT !.out = bytes]]
    /\ UNCHANGED <<connections, encoders, decoders, compression, mutex, conn, enc, budget>>
    /\ UNCHANGED <<fan, handled, nonmux>>

\* the errors of ReceiveFrom that come from the codec, not from the registry
\* or the transport
CodecErrors == {"create", "decode", "too small"}

\* -------------------------------------------------------- listenConnection
\* the ids that are registered, as GetConnections and SendToAll copy them
\* under the read lock
Snapshot == {id \in IDs : connections[id] # NoConn}
\* the goroutines that are free to be started
Resting == {u \in Tasks : task[u].pc = "idle"}
\* one free goroutine for each id of S
Assign(S) == CHOOSE f \in [S -> Resting] : \A a, b \in S : a # b => f[a] # f[b]

\* listenConnection(id, handler) at the top of its loop
Listening(id) == [NoCall EXCEPT !.op = "listen", !.loop = TRUE, !.pc = "check", !.id = id]

\* the goroutines once a listenConnection is started for every registered id
WithLoops ==
    LET run == Assign(Snapshot)
    IN [u \in Tasks |->
          IF \E id \in Snapshot : run[id] = u
          THEN Listening(CHOOSE id \in Snapshot : run[id] = u)
          ELSE task[u]]

\* StartListening(handler) (lines 379-387): the registered ids are copied
\* under the read lock and one goroutine per id is started, which runs
\* listenConnection(id, handler); with no id registered nothing is started
StartListening ==
    /\ mutex = Unlocked
    /\ Snapshot # {}
    /\ Cardinality(Resting) >= Cardinality(Snapshot)
    /\ task' = WithLoops
    /\ UNCHANGED <<connections, encoders, decoders, compression, mutex, conn, enc, dec, budget>>
    /\ UNCHANGED <<fan, handled, nonmux>>

\* the top of the loop (lines 394-402): the loop ends when id is no longer
\* registered, else it calls ReceiveFrom(id, buffer)
ListenCheck(t) ==
    /\ At(t, "listen", "check")
    /\ mutex = Unlocked
    /\ IF connections[task[t].id] = NoConn
       THEN /\ task' = [task EXCEPT ![t] = NoCall]
            /\ budget' = budget
       ELSE /\ budget > 0
            /\ budget' = budget - 1
            /\ task' = [task EXCEPT ![t] = [Listening(@.id) EXCEPT !.op = "ReceiveFrom",
                                                                   !.pc = "lock"]]
    /\ UNCHANGED <<connections, encoders, decoders, compression, mutex, conn, enc, dec>>
    /\ UNCHANGED <<fan, handled, nonmux>>

\* what the handler is given: a copy of buffer[:n]
Handed(r) == [id |-> r.id, data |-> r.out]

\* faulty variant: the handler is called for every result, empty or not
ListenResult_AlwaysHandle(t) ==
    /\ At(t, "ReceiveFrom", "done")
    /\ task[t].loop
    /\ task' = [task EXCEPT ![t] =
                  [@ EXCEPT !.op = "listen",
                            !.pc = IF task[t].err # "" THEN "remove" ELSE "check"]]
    /\ handled' = IF task[t].err = "" THEN Append(handled, Handed(task[t])) ELSE handled
    /\ UNCHANGED <<connections, encoders, decoders, compression, mutex, conn, enc, dec, budget>>
    /\ UNCHANGED <<fan, nonmux>>

\* ReceiveFrom has returned to the loop (lines 403-415): on any error the
\* loop goes to remove the connection, else it calls the handler when n > 0
\* and starts over
ListenResult(t) ==
    /\ At(t, "ReceiveFrom", "done")
    /\ task[t].loop
    /\ task' = [task EXCEPT ![t] =
                  [@ EXCEPT !.op = "listen",
                            !.pc = IF task[t].err # "" THEN "remove" ELSE "check"]]
    /\ handled' = IF task[t].err = "" /\ Len(task[t].out) > 0
                  THEN Append(handled, Handed(task[t]))
                  ELSE handled
    /\ UNCHANGED <<connections, encoders, decoders, compression, mutex, conn, enc, dec, budget>>
    /\ UNCHANGED <<fan, nonmux>>

\* faulty variant: the loop ends and leaves the connection registered
ListenRemove_KeepConnection(t) ==
    /\ At(t, "listen", "remove")
    /\ mutex = Unlocked
    /\ task' = [task EXCEPT ![t] = NoCall]
    /\ UNCHANGED <<connections, encoders, decoders, conn, enc, dec>>
    /\ UNCHANGED <<compression, mutex, budget>>
    /\ UNCHANGED <<fan, handled, nonmux>>

\* mm.RemoveConnection(id); break (lines 407-408)
ListenRemove(t) ==
    /\ At(t, "listen", "remove")
    /\ mutex = Unlocked
    /\ RemoveConnection(task[t].id)
    /\ task' = [task EXCEPT ![t] = NoCall]
    /\ UNCHANGED <<compression, mutex, budget>>
    /\ UNCHANGED <<fan, handled, nonmux>>

\* --------------------------------------------------------------- SendToAll
\* the goroutines SendToAll has started
Kids == {u \in Tasks : task[u].kid}

\* SendToAll(p) up to wg.Wait() (lines 173-187): the registered ids are
\* copied under the read lock and one goroutine per id is started, which
\* calls SendTo(id, p)
CallSendToAll(p) ==
    /\ fan.pc = "idle"
    /\ budget > 0
    /\ mutex = Unlocked
    /\ Cardinality(Resting) >= Cardinality(Snapshot)
    /\ LET run == Assign(Snapshot)
       IN task' = [u \in Tasks |->
                    IF \E id \in Snapshot : run[id] = u
                    THEN [NoCall EXCEPT !.op = "SendTo", !.pc = "lock", !.kid = TRUE,
                                        !.id = CHOOSE id \in Snapshot : run[id] = u,
                                        !.data = p]
                    ELSE task[u]]
    /\ fan' = [pc |-> "wait", data |-> p]
    /\ budget' = budget - 1
    /\ UNCHANGED <<connections, encoders, decoders, compression, mutex, conn, enc, dec>>
    /\ UNCHANGED <<handled, nonmux>>

\* faulty variant: SendToAll gives up as soon as one of its sends has failed
AllFinished_FirstError ==
    \/ \A u \in Kids : task[u].pc = "done"
    \/ \E u \in Kids : task[u].pc = "done" /\ task[u].err # ""

\* wg.Wait() (line 189)
AllFinished == \A u \in Kids : task[u].pc = "done"

\* SendToAll returns
SendToAllReturn ==
    /\ fan.pc = "wait"
    /\ AllFinished
    /\ fan' = [fan EXCEPT !.pc = "done"]
    /\ UNCHANGED <<connections, encoders, decoders, compression, mutex, conn, enc, dec, task,
                   budget>>
    /\ UNCHANGED <<handled, nonmux>>

\* the caller of SendToAll goes on; the goroutines it started are gone
SendToAllOver ==
    /\ fan.pc = "done"
    /\ fan' = [pc |-> "idle", data |-> <<>>]
    /\ task' = [u \in Tasks |-> IF u \in Kids THEN NoCall ELSE task[u]]
    /\ UNCHANGED <<connections, encoders, decoders, compression, mutex, conn, enc, dec, budget>>
    /\ UNCHANGED <<handled, nonmux>>

\* the caller has what its call returned and is free for its next call
Returns(t) ==
    /\ task[t].pc = "done"
    /\ ~task[t].kid
    /\ ~task[t].loop
    /\ task' = [task EXCEPT ![t] = NoCall]
    /\ UNCHANGED <<connections, encoders, decoders, compression, mutex, conn, enc, dec, budget>>
    /\ UNCHANGED <<fan, handled, nonmux>>

MuxNext ==
    \/ \E id \in IDs : AddConnection(id)
    \/ \E k \in Codecs : SetCompression(k)
    \/ \E id \in IDs : CallRemoveConnection(id)
    \/ \E t \in Tasks, id \in IDs, p \in Payloads : CallSendTo(t, id, p)
    \/ \E t \in Tasks : SendToLock(t)
    \/ \E t \in Tasks : Compress(t)
    \/ \E t \in Tasks : Flush(t)
    \/ \E t \in Tasks : Write(t)
    \/ \E t \in Tasks, id \in IDs : CallReceiveFrom(t, id)
    \/ \E t \in Tasks : ReceiveLock(t)
    \/ \E t \in Tasks : Read(t)
    \/ \E t \in Tasks : Decode(t)
    \/ CallClose
    \/ StartListening
    \/ \E t \in Tasks : ListenCheck(t)
    \/ \E t \in Tasks : ListenResult(t)
    \/ \E t \in Tasks : ListenRemove(t)
    \/ \E p \in Payloads : CallSendToAll(p)
    \/ SendToAllReturn
    \/ SendToAllOver
    \/ \E t \in Tasks : Returns(t)

\* ================================================================ TCPPipe
\* The TCP pipe, with a manager set (config.multiConn) or, in receiver mode,
\* without one.  In receiver mode the id of a connection is its remote
\* address, here the number of the connection; in sender mode the pipe has
\* the one connection it dialled.
Modes == {"receiver", "sender"}

\* NewTCPPipe: no client yet, Start not begun
PInit ==
    /\ mode \in Modes
    /\ multi \in BOOLEAN
    /\ mode = "sender" => multi
    /\ gone = {}
    /\ shut = {}
    /\ clients = {}
    /\ hc = [c \in Links |-> "none"]
    /\ main = "start"
    /\ starter = "none"

\* Start has not returned: the process runs
Running == main # "done"

\* createConnHandler configures the compression before Start (part_002
\* lines 396-399)
Configure(k) ==
    /\ multi
    /\ main = "start"
    /\ clients = {}
    /\ SetCompression(k)

\* acceptConnections (lines 94-104): Accept returns the next connection,
\* which is stored in pipe.clients
Accept(c) ==
    /\ mode = "receiver"
    /\ hc[c] = "none"
    /\ \A b \in 1..(c - 1) : hc[b] \notin {"none", "add"}
    /\ clients' = clients \cup {c}
    /\ hc' = [hc EXCEPT ![c] = "add"]
    /\ UNCHANGED <<mode, multi, gone, shut, main, starter, mvars, nonpipe>>

\* acceptConnections (lines 109-123): with a manager set the connection is
\* added to it; handleClient is started for the connection
Serve(c) ==
    /\ hc[c] = "add"
    /\ IF multi THEN mutex = Unlocked /\ Register(c)
       ELSE UNCHANGED <<conn, connections>>
    /\ hc' = [hc EXCEPT ![c] = "top"]
    /\ UNCHANGED <<encoders, decoders, compression, mutex, enc, dec, task, fan, handled,
                   budget>>
    /\ UNCHANGED <<mode, multi, gone, shut, clients, main, starter, nonpipe>>

\* handleClient at the top of its loop (lines 150-158): with a manager set
\* it reads nothing and goes to sleep, without one it calls conn.Read
HandleTop(c) ==
    /\ hc[c] = "top"
    /\ hc' = [hc EXCEPT ![c] = IF multi THEN "sleep" ELSE "read"]
    /\ UNCHANGED <<mode, multi, gone, shut, clients, main, starter, mvars, nonpipe>>

\* time.Sleep(100 * time.Millisecond); continue (lines 153-154)
HandleSleep(c) ==
    /\ hc[c] = "sleep"
    /\ hc' = [hc EXCEPT ![c] = "top"]
    /\ UNCHANGED <<mode, multi, gone, shut, clients, main, starter, mvars, nonpipe>>

\* conn.Read has returned data (lines 158, 166-178), which is written to
\* standard output
HandleData(c) ==
    /\ hc[c] = "read"
    /\ c \notin gone
    /\ hc' = [hc EXCEPT ![c] = "top"]
    /\ UNCHANGED <<mode, multi, gone, shut, clients, main, starter, mvars, nonpipe>>

\* conn.Read returns the end of the stream that the peer has closed (lines
\* 158-164)
HandleReadEnd(c) ==
    /\ hc[c] = "read"
    /\ c \in gone
    /\ hc' = [hc EXCEPT ![c] = "closing"]
    /\ UNCHANGED <<mode, multi, gone, shut, clients, main, starter, mvars, nonpipe>>

\* conn.Read fails on a connection that the peer has not closed (lines
\* 158-164)
HandleReadFails(c) ==
    /\ hc[c] = "read"
    /\ c \notin gone
    /\ hc' = [hc EXCEPT ![c] = "closing"]
    /\ UNCHANGED <<mode, multi, gone, shut, clients, main, starter, mvars, nonpipe>>

\* handleClient returns (lines 129-146): the deferred function closes the
\* connection, deletes it from pipe.clients and, with a manager set, calls
\* RemoveConnection
HandleReturn(c) ==
    /\ hc[c] = "closing"
    /\ shut' = shut \cup {c}
    /\ clients' = clients \ {c}
    /\ IF multi THEN mutex = Unlocked /\ RemoveConnection(c)
       ELSE UNCHANGED <<connections, encoders, decoders, conn, enc, dec>>
    /\ hc' = [hc EXCEPT ![c] = "done"]
    /\ UNCHANGED <<compression, mutex, task, fan, handled, budget>>
    /\ UNCHANGED <<mode, multi, gone, main, starter, nonpipe>>

\* the peer of an accepted connection closes it
PeerClose(c) ==
    /\ hc[c] # "none"
    /\ c \notin gone
    /\ gone' = gone \cup {c}
    /\ UNCHANGED <<mode, multi, shut, clients, hc, main, starter, mvars, nonpipe>>

\* handleSend (lines 184-194): the connection the pipe dialled is added to
\* the manager
SendStart ==
    /\ mode = "sender"
    /\ main = "start"
    /\ mutex = Unlocked
    /\ Register(1)
    /\ main' = "spawn"
    /\ UNCHANGED <<encoders, decoders, compression, mutex, enc, dec, task, fan, handled,
                   budget>>
    /\ UNCHANGED <<mode, multi, gone, shut, clients, hc, starter, nonpipe>>

\* go pipe.multiplexer.StartListening(...) (lines 197-200)
SendSpawn ==
    /\ main = "spawn"
    /\ main' = "stdin"
    /\ starter' = "pending"
    /\ UNCHANGED <<mode, multi, gone, shut, clients, hc, mvars, nonpipe>>

\* the goroutine of line 197 runs StartListening with the handler that
\* writes to standard output
PipeListen ==
    /\ Running
    /\ starter = "pending"
    /\ mutex = Unlocked
    /\ Cardinality(Resting) >= Cardinality(Snapshot)
    /\ task' = WithLoops
    /\ starter' = "done"
    /\ UNCHANGED <<connections, encoders, decoders, compression, mutex, conn, enc, dec, fan,
                   handled, budget>>
    /\ UNCHANGED <<mode, multi, gone, shut, clients, hc, main, nonpipe>>

\* handleSend is in a SendTo
Sending == \E u \in Tasks : task[u].op = "SendTo"

\* handleSend has read data from standard input and calls SendTo (lines
\* 209-223)
PipeSend(t, p) ==
    /\ main = "stdin"
    /\ ~Sending
    /\ CallSendTo(t, 1, p)

\* SendTo has returned to handleSend (lines 236-240): an error ends the loop
PipeSent(t) ==
    /\ main = "stdin"
    /\ At(t, "SendTo", "done")
    /\ task' = [task EXCEPT ![t] = NoCall]
    /\ main' = IF task[t].err # "" THEN "closing" ELSE "stdin"
    /\ UNCHANGED <<connections, encoders, decoders, compression, mutex, conn, enc, dec, fan,
                   handled, budget>>
    /\ UNCHANGED <<mode, multi, gone, shut, clients, hc, starter, nonpipe>>

\* os.Stdin.Read has returned an error or the end of the input (lines
\* 209-215)
StdinEnd ==
    /\ main = "stdin"
    /\ ~Sending
    /\ main' = "closing"
    /\ UNCHANGED <<mode, multi, gone, shut, clients, hc, starter, mvars, nonpipe>>

\* handleSend returns: "defer pipe.conn.Close()" (line 188); Start returns
\* and the process ends
SendReturn ==
    /\ main = "closing"
    /\ conn' = [conn EXCEPT ![1].closes = @ + 1]
    /\ main' = "done"
    /\ UNCHANGED <<connections, encoders, decoders, compression, mutex, enc, dec, task, fan,
                   handled, budget>>
    /\ UNCHANGED <<mode, multi, gone, shut, clients, hc, starter, nonpipe>>

\* a step inside a call of the manager that the pipe or a receive loop made
ManagerStep ==
    /\ Running
    /\ \E t \in Tasks :
        \/ SendToLock(t)
        \/ Compress(t)
        \/ Flush(t)
        \/ Write(t)
        \/ ReceiveLock(t)
        \/ Read(t)
        \/ Decode(t)
        \/ ListenCheck(t)
        \/ ListenResult(t)
        \/ ListenRemove(t)

PipeNext ==
    \/ \E k \in Codecs : Configure(k)
    \/ \E c \in Links : Accept(c)
    \/ \E c \in Links : Serve(c)
    \/ \E c \in Links : HandleTop(c)
    \/ \E c \in Links : HandleSleep(c)
    \/ \E c \in Links : HandleData(c)
    \/ \E c \in Links : HandleReadEnd(c)
    \/ \E c \in Links : HandleReadFails(c)
    \/ \E c \in Links : HandleReturn(c)
    \/ \E c \in Links : PeerClose(c)
    \/ SendStart
    \/ SendSpawn
    \/ PipeListen
    \/ \E t \in Tasks, p \in Payloads : PipeSend(t, p)
    \/ \E t \in Tasks : PipeSent(t)
    \/ StdinEnd
    \/ SendReturn
    \/ ManagerStep

\* ============================================================ NetworkPipe
\* The UDP pipe (main.go): Start runs handleReceive on np.conn and, in
\* sender mode, handleSend, which first asks isNPRunning whether the remote
\* is an NP instance.  Data is a sequence of characters.

\* ---------------------------------------------------------------- bounds
\* lines that standard input delivers to handleSend in one run
MaxLines == 2
\* datagrams that peers send to np.conn of their own accord in one run
MaxDatagrams == 2

AUTH_COMMAND == <<"I", "S", "N", "P">>
AUTH_RESPONSE == <<"O", "K">>
\* BUFFER_SIZE, and the size of the buffer isNPRunning reads into
BUFFER_SIZE == 4096
AuthBuffer == 64

\* the lines of standard input, without their line end (scanner.Bytes)
Lines == {<<"a">>, AUTH_COMMAND}
\* what a peer sends to np.conn
Datagrams == {AUTH_COMMAND, AUTH_COMMAND \o <<"\n">>, <<"a">>}

\* What listens at the remote address: an NP instance, a service that
\* returns what it gets, one that answers "OK" and a line end to anything,
\* or nothing.
Peers == {"np", "echo", "near", "none"}
\* np.conn, the socket of isNPRunning, config.host:config.port, another host
Local == "conn"
Probe == "probe"
Remote == "remote"
Other == "other"

Datagram(d, a, b) == [data |-> d, from |-> a, to |-> b]
WriteToUDP(d, b, f) == [data |-> d, to |-> b, by |-> f]

\* a Read into a buffer of the given size returns what fits (buffer[:n])
Truncate(d, size) == SubSeq(d, 1, Min(Len(d), size))
\* strings.HasSuffix(string(buffer[:n]), "\n")
HasSuffix(d) == Len(d) > 0 /\ d[Len(d)] = "\n"
\* handleAuth's test (line 265)
IsAuth(d) == d = AUTH_COMMAND

\* the datagrams under way, without the i-th
Taken(i) == SubSeq(net, 1, i - 1) \o SubSeq(net, i + 1, Len(net))

\* what the remote sends back for a datagram it has read
Answer(k, d) ==
    CASE k = "np" -> IF IsAuth(d) THEN {AUTH_RESPONSE} ELSE {}
      [] k = "echo" -> {d}
      [] k = "near" -> {AUTH_RESPONSE \o <<"\n">>}
      [] OTHER -> {}

NotProbing == [pc |-> "off", ok |-> FALSE]
NoDatagram == [pc |-> "off", data |-> <<>>, addr |-> ""]

\* NewNetworkPipe: the socket is bound, no goroutine runs
UInit ==
    /\ umode \in Modes
    /\ peer \in Peers
    /\ probe = NotProbing
    /\ sender = "off"
    /\ receiver = NoDatagram
    /\ net = <<>>
    /\ stdout = <<>>
    /\ sentto = <<>>
    /\ answers = {}
    /\ quota = [lines |-> MaxLines, dgrams |-> MaxDatagrams]

\* Start (lines 351-355): handleReceive always, handleSend in sender mode
UdpStart ==
    /\ receiver.pc = "off"
    /\ receiver' = [receiver EXCEPT !.pc = "read"]
    /\ sender' = IF umode = "sender" THEN "auth" ELSE "none"
    /\ UNCHANGED <<umode, peer, probe, net, stdout, sentto, answers, quota, nonudp>>

\* isNPRunning (lines 243-246): DialTimeout; an error returns false
ProbeDial ==
    /\ sender = "auth"
    /\ probe.pc = "off"
    /\ \E okay \in BOOLEAN :
        probe' = IF okay THEN [probe EXCEPT !.pc = "write"]
                 ELSE [pc |-> "done", ok |-> FALSE]
    /\ UNCHANGED <<umode, peer, sender, receiver, net, stdout, sentto, answers, quota,
                   nonudp>>

\* isNPRunning (lines 249-252): the probe is written; an error returns false
ProbeWrite ==
    /\ probe.pc = "write"
    /\ \E okay \in BOOLEAN :
        IF okay
        THEN /\ net' = Append(net, Datagram(AUTH_COMMAND, Probe, Remote))
             /\ probe' = [probe EXCEPT !.pc = "read"]
        ELSE /\ net' = net
             /\ probe' = [pc |-> "done", ok |-> FALSE]
    /\ UNCHANGED <<umode, peer, sender, receiver, stdout, sentto, answers, quota, nonudp>>

\* faulty variant: any answer is taken for the answer of an NP instance
ProbeRead_AnyAnswer(i) ==
    /\ probe.pc = "read"
    /\ net[i].to = Probe
    /\ net' = Taken(i)
    /\ probe' = [pc |-> "done", ok |-> TRUE]
    /\ UNCHANGED <<umode, peer, sender, receiver, stdout, sentto, answers, quota, nonudp>>

\* isNPRunning (lines 254-261): a datagram arrives before the deadline and
\* is compared with AUTH_RESPONSE
ProbeRead(i) ==
    /\ probe.pc = "read"
    /\ net[i].to = Probe
    /\ net' = Taken(i)
    /\ probe' = [pc |-> "done", ok |-> Truncate(net[i].data, AuthBuffer) = AUTH_RESPONSE]
    /\ UNCHANGED <<umode, peer, sender, receiver, stdout, sentto, answers, quota, nonudp>>

\* isNPRunning (lines 255-259): the Read ends with an error, the deadline
\* included
ProbeTimeout ==
    /\ probe.pc = "read"
    /\ probe' = [pc |-> "done", ok |-> FALSE]
    /\ UNCHANGED <<umode, peer, sender, receiver, net, stdout, sentto, answers, quota,
                   nonudp>>

\* handleSend (lines 304-307): without a positive answer it warns and returns
SendCheck ==
    /\ sender = "auth"
    /\ probe.pc = "done"
    /\ sender' = IF probe.ok THEN "scan" ELSE "done"
    /\ UNCHANGED <<umode, peer, probe, receiver, net, stdout, sentto, answers, quota,
                   nonudp>>

\* handleSend (lines 315-321): a line of standard input is sent to the
\* remote address; an error of WriteToUDP ends handleSend
SendLine(l) ==
    /\ sender = "scan"
    /\ quota.lines > 0
    /\ quota' = [quota EXCEPT !.lines = @ - 1]
    /\ sentto' = Append(sentto, WriteToUDP(l, Remote, "handleSend"))
    /\ \E okay \in BOOLEAN :
        IF okay
        THEN /\ net' = Append(net, Datagram(l, Local, Remote))
             /\ sender' = sender
        ELSE /\ net' = net
             /\ sender' = "done"
    /\ UNCHANGED <<umode, peer, probe, receiver, stdout, answers, nonudp>>

\* handleSend (lines 315, 332-335): standard input ends
SendEnd ==
    /\ sender = "scan"
    /\ sender' = "done"
    /\ UNCHANGED <<umode, peer, probe, receiver, net, stdout, sentto, answers, quota,
                   nonudp>>

\* handleReceive (line 277): ReadFromUDP returns a datagram and its source
ReadFromUDP(i) ==
    /\ receiver.pc = "read"
    /\ net[i].to = Local
    /\ net' = Taken(i)
    /\ receiver' = [pc |-> "got", data |-> Truncate(net[i].data, BUFFER_SIZE),
                    addr |-> net[i].from]
    /\ UNCHANGED <<umode, peer, probe, sender, stdout, sentto, answers, quota, nonudp>>

\* handleReceive (lines 278-281): ReadFromUDP fails and handleReceive returns
ReadFails ==
    /\ receiver.pc = "read"
    /\ receiver' = [NoDatagram EXCEPT !.pc = "done"]
    /\ UNCHANGED <<umode, peer, probe, sender, net, stdout, sentto, answers, quota,
                   nonudp>>

\* handleAuth (lines 265-268): the answer is written to the source of the
\* probe and the result of the call is discarded
AuthReply ==
    /\ sentto' = Append(sentto, WriteToUDP(AUTH_RESPONSE, receiver.addr, "handleAuth"))
    /\ \E okay \in BOOLEAN :
        net' = IF okay THEN Append(net, Datagram(AUTH_RESPONSE, Local, receiver.addr))
                ELSE net
    /\ stdout' = stdout

\* handleReceive (lines 294-297): the datagram goes to standard output,
\* followed by a line end if it has none
Output ==
    /\ stdout' = stdout \o <<receiver.data>>
                 \o (IF HasSuffix(receiver.data) THEN <<>> ELSE << <<"\n">> >>)
    /\ UNCHANGED <<sentto, net>>

\* handleReceive (lines 283-297) with the datagram it has read
HandleDatagram ==
    /\ receiver.pc = "got"
    /\ IF IsAuth(receiver.data) THEN AuthReply ELSE Output
    /\ receiver' = [NoDatagram EXCEPT !.pc = "read"]
    /\ UNCHANGED <<umode, peer, probe, sender, answers, quota, nonudp>>

\* a peer sends a datagram to np.conn
PeerSend(d, a) ==
    /\ quota.dgrams > 0
    /\ quota' = [quota EXCEPT !.dgrams = @ - 1]
    /\ net' = Append(net, Datagram(d, a, Local))
    /\ UNCHANGED <<umode, peer, probe, sender, receiver, stdout, sentto, answers, nonudp>>

\* the remote reads a datagram and sends its answer, if it has one, to the
\* source of the datagram
PeerReceive(i) ==
    /\ net[i].to = Remote
    /\ \E back \in {Answer(peer, net[i].data)} :
        /\ net' = IF back = {} THEN Taken(i)
                   ELSE Taken(i) \o <<Datagram(CHOOSE b \in back : TRUE, Remote, net[i].from)>>
        /\ answers' = IF net[i].from = Probe THEN answers \cup back ELSE answers
    /\ UNCHANGED <<umode, peer, probe, sender, receiver, stdout, sentto, quota, nonudp>>

\* the network or a host that does not listen drops a datagram
Lose(i) ==
    /\ net' = Taken(i)
    /\ UNCHANGED <<umode, peer, probe, sender, receiver, stdout, sentto, answers, quota,
                   nonudp>>

UdpNext ==
    \/ UdpStart
    \/ ProbeDial
    \/ ProbeWrite
    \/ \E i \in 1..Len(net) : ProbeRead(i)
    \/ ProbeTimeout
    \/ SendCheck
    \/ \E l \in Lines : SendLine(l)
    \/ SendEnd
    \/ \E i \in 1..Len(net) : ReadFromUDP(i)
    \/ ReadFails
    \/ HandleDatagram
    \/ \E d \in Datagrams, a \in {Remote, Other} : PeerSend(d, a)
    \/ \E i \in 1..Len(net) : PeerReceive(i)
    \/ \E i \in 1..Len(net) : Lose(i)

\* a UDP pipe that is not started
NoUdp == UInit /\ umode = "receiver" /\ peer = "none"

\* ========================================================= httpConnection
\* The adapter that makes an HTTP request and its response a net.Conn
\* (relay/main.go): Read, Write, Close and the three deadline setters, as
\* the calls that are made on one connection, one after the other.

\* ---------------------------------------------------------------- bounds
\* bytes that the request body of the connection delivers in one run
MaxBody == 2
\* calls that are made on the connection in one run
MaxOps == 4

Bytes(n) == [i \in 1..n |-> i]
\* len(b) of a Read, the data of a Write
Sizes == 1..BufSize
Writes == {Bytes(n) : n \in 1..BufSize}
\* what the field readBuf can hold
Buffers == {Bytes(n) : n \in 0..BufSize}

\* the result of a call: the op, n and err it returned
Result(op, n, err) == [op |-> op, n |-> n, err |-> err]

\* What c.r.Body.Read(b), with len(b) = size, can return when the body has
\* the bytes rest left: some of the bytes, with the end of the stream when
\* they are the last, or an error.
BodyReads(rest, size) ==
    {[n |-> n, err |-> ""] : n \in 1..Min(size, Len(rest))}
    \cup (IF Len(rest) <= size THEN {[n |-> Len(rest), err |-> "EOF"]} ELSE {})
    \cup {[n |-> 0, err |-> "body"]}

\* What c.w.Write(b) and the Flush can return: all of b written, or an error
\* after none of it.
ResponseWrites(b) == {[n |-> Len(b), err |-> ""], [n |-> 0, err |-> "response"]}

\* faulty variant: Read hands out buffered data before it looks at closed
ReadOf_BufferFirst(c, size, res) ==
    IF Len(c.readBuf) > 0
    THEN LET n == Min(size, Len(c.readBuf))
         IN [n |-> n, err |-> "", conn |-> [c EXCEPT !.readBuf = SubSeq(@, n + 1, Len(@))],
             body |-> 0]
    ELSE IF c.closed THEN [n |-> 0, err |-> "EOF", conn |-> c, body |-> 0]
    ELSE [n |-> res.n, err |-> res.err, conn |-> c, body |-> res.n]

\* httpConnection.Read(b) (lines 473-487) on the connection c, with
\* len(b) = size, when Body.Read would return res: what it returns, the
\* connection after it, and the bytes it has taken from the body
ReadOf(c, size, res) ==
    IF c.closed THEN [n |-> 0, err |-> "EOF", conn |-> c, body |-> 0]
    ELSE IF Len(c.readBuf) > 0
    THEN LET n == Min(size, Len(c.readBuf))
         IN [n |-> n, err |-> "", conn |-> [c EXCEPT !.readBuf = SubSeq(@, n + 1, Len(@))],
             body |-> 0]
    ELSE [n |-> res.n, err |-> res.err, conn |-> c, body |-> res.n]

\* httpConnection.Write(b) (lines 490-501) when w.Write would return res:
\* what it returns and the bytes that reach the response
WriteOf(c, b, res) ==
    IF c.closed THEN [n |-> 0, err |-> "closed pipe", sent |-> <<>>]
    ELSE [n |-> res.n, err |-> res.err, sent |-> SubSeq(b, 1, res.n)]

\* newHTTPConnection (lines 462-470); the request body holds what the client
\* sends
HInit ==
    /\ hcon = [closed |-> FALSE, readBuf |-> <<>>]
    /\ reqBody \in {Bytes(n) : n \in 0..MaxBody}
    /\ resp = <<>>
    /\ last = Result("", 0, "")
    /\ todo = MaxOps

\* one more call is made on the connection
Called == todo > 0 /\ todo' = todo - 1

\* c.Read(b)
HTTPRead(size) ==
    /\ Called
    /\ \E res \in BodyReads(reqBody, size) :
        LET r == ReadOf(hcon, size, res)
        IN /\ hcon' = r.conn
           /\ reqBody' = SubSeq(reqBody, r.body + 1, Len(reqBody))
           /\ last' = Result("Read", r.n, r.err)
    /\ UNCHANGED <<resp, nonhttp>>

\* c.Write(b)
HTTPWrite(b) ==
    /\ Called
    /\ \E res \in ResponseWrites(b) :
        LET r == WriteOf(hcon, b, res)
        IN /\ resp' = resp \o r.sent
           /\ last' = Result("Write", r.n, r.err)
    /\ UNCHANGED <<hcon, reqBody, nonhttp>>

\* c.Close() (lines 504-507)
HTTPClose ==
    /\ Called
    /\ hcon' = [hcon EXCEPT !.closed = TRUE]
    /\ last' = Result("Close", 0, "")
    /\ UNCHANGED <<reqBody, resp, nonhttp>>

\* c.SetDeadline(t) (lines 520-522)
SetDeadline ==
    /\ Called
    /\ last' = Result("SetDeadline", 0, "")
    /\ UNCHANGED <<hcon, reqBody, resp, nonhttp>>

\* c.SetReadDeadline(t) (lines 525-527)
SetReadDeadline ==
    /\ Called
    /\ last' = Result("SetReadDeadline", 0, "")
    /\ UNCHANGED <<hcon, reqBody, resp, nonhttp>>

\* c.SetWriteDeadline(t) (lines 530-532)
SetWriteDeadline ==
    /\ Called
    /\ last' = Result("SetWriteDeadline", 0, "")
    /\ UNCHANGED <<hcon, reqBody, resp, nonhttp>>

HttpNext ==
    \/ \E size \in Sizes : HTTPRead(size)
    \/ \E b \in Writes : HTTPWrite(b)
    \/ HTTPClose
    \/ SetDeadline
    \/ SetReadDeadline
    \/ SetWriteDeadline

\* an adapter on which no call is made
NoHttp == HInit /\ reqBody = <<>>

\* =====================================================================
\* The message history of the web interface (webui.go): the package
\* variable messageBuffer, StartWebUI that initialises it and RecordMessage
\* that the goroutines of a pipe call for what they send and receive.
\* =====================================================================

\* ---------------------------------------------------------------- bounds
\* the Size StartWebUI gives the buffer, 100 in the source (line 78)
HistorySize == 3
\* goroutines that call RecordMessage
NumRecorders == 2
\* calls of RecordMessage in a run
MaxRecords == 5

\* the length from which on RecordMessage shortens a content (line 193)
DisplayLimit == 100

Recorders == 1..NumRecorders
NoMessage == [Size |-> -1]
\* what the callers record: a notice of the pipe, data that RecordMessage
\* keeps as it is and data that it shortens
Recordings ==
    {[content |-> Bytes(1), direction |-> "system"],
     [content |-> Bytes(DisplayLimit), direction |-> "in"],
     [content |-> Bytes(DisplayLimit + 1), direction |-> "out"]}

\* content[:100] + "..." of a longer content (lines 193-196)
Display(content) ==
    IF Len(content) > DisplayLimit
    THEN SubSeq(content, 1, DisplayLimit) \o <<".", ".", ".">>
    ELSE content

\* the Message of lines 198-205 (From and To are the caller and the process)
Message(content, direction, size, from, time) ==
    [Content |-> Display(content), Direction |-> direction, Timestamp |-> time,
     Size |-> size, From |-> from]

\* faulty variant: the message is added at the end
Prepend_AtEnd(buf, m) ==
    LET all == buf.Messages \o <<m>>
    IN  [buf EXCEPT !.Messages =
            IF Len(all) > buf.Size THEN SubSeq(all, 1, buf.Size) ELSE all]

\* lines 211-216: the message is put in front of the others and the slice is
\* cut to its first Size elements
Prepend(buf, m) ==
    LET all == <<m>> \o buf.Messages
    IN  [buf EXCEPT !.Messages =
            IF Len(all) > buf.Size THEN SubSeq(all, 1, buf.Size) ELSE all]

\* the zero value of the package variable (line 59), before Start
WInit ==
    /\ messageBuffer = [Messages |-> <<>>, Size |-> 0]
    /\ web = FALSE
    /\ msg = [t \in Recorders |-> NoMessage]
    /\ clock = 1
    /\ recorded = <<>>
    /\ records = MaxRecords

\* Start of a pipe with config.webUI set calls StartWebUI with Enabled set,
\* before it starts any of the goroutines that record (part_005 lines 65-83,
\* part_002 lines 337-359); StartWebUI assigns the buffer (lines 76-79)
StartWebUI ==
    /\ ~web
    /\ web' = TRUE
    /\ messageBuffer' = [Messages |-> <<>>, Size |-> HistorySize]
    /\ UNCHANGED <<msg, clock, recorded, records, nonweb>>

\* RecordMessage up to its Lock (lines 192-205): the content is shortened
\* and the Message is built with the time of this moment
RecordBuild(t, content, direction) ==
    /\ web
    /\ records > 0
    /\ msg[t] = NoMessage
    /\ msg' = [msg EXCEPT ![t] = Message(content, direction, Len(content), t, clock)]
    /\ clock' = clock + 1
    /\ records' = records - 1
    /\ UNCHANGED <<messageBuffer, web, recorded, nonweb>>

\* RecordMessage from its Lock to its deferred Unlock (lines 207-217)
RecordMessage(t) ==
    /\ msg[t] # NoMessage
    /\ messageBuffer' = Prepend(messageBuffer, msg[t])
    /\ recorded' = Append(recorded, msg[t])
    /\ msg' = [msg EXCEPT ![t] = NoMessage]
    /\ UNCHANGED <<web, clock, records, nonweb>>

WebNext ==
    \/ StartWebUI
    \/ \E t \in Recorders, r \in Recordings : RecordBuild(t, r.content, r.direction)
    \/ \E t \in Recorders : RecordMessage(t)

\* a pipe that is not started
NoPipe == PInit /\ mode = "receiver" /\ multi

\* the relay, with a manager that nobody calls
RelayInit == Init /\ MInit /\ NoPipe /\ NoUdp /\ NoHttp /\ WInit
Spec == RelayInit /\ [][Next]_vars

\* the manager, with a relay that no connection reaches
MuxInit == MInit /\ Init /\ load = Crowd /\ NoPipe /\ NoUdp /\ NoHttp /\ WInit
MuxSpec == MuxInit /\ [][MuxNext]_vars

\* the TCP pipe and its manager
PipeInit == PInit /\ MInit /\ Init /\ load = Crowd /\ NoUdp /\ NoHttp /\ WInit
PipeSpec == PipeInit /\ [][PipeNext]_vars

\* The goroutines of the pipe are scheduled: a step of the program that stays
\* possible is taken.  What the peers and the standard input do (Accept,
\* PipeSend, StdinEnd) is under no such assumption.
PipeFairness ==
    /\ \A c \in Links : WF_vars(Serve(c))
    /\ \A c \in Links : WF_vars(HandleTop(c))
    /\ \A c \in Links : WF_vars(HandleSleep(c))
    /\ \A c \in Links : WF_vars(HandleReadEnd(c))
    /\ \A c \in Links : WF_vars(HandleReturn(c))
    /\ WF_vars(SendStart)
    /\ WF_vars(SendSpawn)
    /\ WF_vars(PipeListen)
    /\ \A t \in Tasks : WF_vars(PipeSent(t))
    /\ WF_vars(SendReturn)
    /\ WF_vars(ManagerStep)
PipeFairSpec == PipeInit /\ [][PipeNext]_vars /\ PipeFairness

\* the UDP pipe
UdpInit == UInit /\ MInit /\ Init /\ load = Crowd /\ NoPipe /\ NoHttp /\ WInit
UdpSpec == UdpInit /\ [][UdpNext]_vars

\* the HTTP adapter
HttpInit == HInit /\ MInit /\ Init /\ load = Crowd /\ NoPipe /\ NoUdp /\ WInit
HttpSpec == HttpInit /\ [][HttpNext]_vars

\* the web interface
WebInit == WInit /\ MInit /\ Init /\ load = Crowd /\ NoPipe /\ NoUdp /\ NoHttp
WebSpec == WebInit /\ [][WebNext]_vars

\* ------------------------------------------------------------------ claims
\* the handshake literals written on c, in order
Acks(c) == SelectSeq(wlog[c], LAMBDA e : e.ack # "")
HasAck(c, a) == \E i \in 1..Len(wlog[c]) : wlog[c][i].ack = a
HasData(c) == \E i \in 1..Len(wlog[c]) : wlog[c][i].ack = ""

\* the join of c was rejected / stored c in session s
Rejected(c) == hpc[c] = "ackFull" \/ HasAck(c, "SESSION_FULL")
JoinedInto(s) == {c \in Conns : hs[c] = s /\ ~Rejected(c)}
BothSlotsFilled(s) == sess[s].Clients[1] # NoConn /\ sess[s].Clients[2] # NoConn

C1_State ==
    /\ \A s \in DOMAIN sess :
        /\ Cardinality(JoinedInto(s)) <= 2
        /\ JoinedInto(s) = {sess[s].Clients[1], sess[s].Clients[2]} \ {NoConn}
    /\ \A c \in Conns : Rejected(c) => \A s \in DOMAIN sess : c \notin Endpoints(s)

C1_Step ==
    \A c \in Conns :
        /\ (/\ hpc[c] = "join" /\ hpc'[c] # "join"
            /\ sessions[sid[c]] # NoSession
            /\ BothSlotsFilled(sessions[sid[c]]))
           => hpc'[c] = "ackFull" /\ sess' = sess /\ sessions' = sessions
        /\ (hpc[c] = "ackFull" /\ hpc'[c] # "ackFull")
           => wlog'[c] = Append(wlog[c], Ack("SESSION_FULL"))

\* C1: at most two connections are ever stored in a session, under every
\* interleaving of the join handlers; a join that finds both slots filled is
\* answered SESSION_FULL, changes no session and its connection is in no slot.
C1_AtMostTwoEndpoints == []C1_State /\ [][C1_Step]_vars

\* a third connection was rejected by a session that is still registered
C1_Witness ==
    \E c \in Conns :
        /\ hpc[c] = "done" /\ HasAck(c, "SESSION_FULL")
        /\ Registered(hs[c]) /\ BothSlotsFilled(hs[c])

\* C2: once two TCP connections have joined a session (WAITING written to
\* the first, CONNECTED to the second), both stored endpoints are open for as
\* long as the session is registered, so that bytes can be relayed.
C2_TcpEndpointsStayOpen ==
    \A s \in DOMAIN sess :
        (/\ Registered(s) /\ BothSlotsFilled(s)
         /\ kind[Clients(s)[1]] = "tcp" /\ kind[Clients(s)[2]] = "tcp"
         /\ HasAck(Clients(s)[1], "WAITING")
         /\ HasAck(Clients(s)[2], "CONNECTED"))
        => ~closed(Clients(s)[1]) /\ ~closed(Clients(s)[2])

\* C3: no copy loop of a session writes a chunk to an endpoint before
\* CONNECTED has been written to both endpoints of the session.
C3_ConnectedBeforePayload ==
    \A s \in DOMAIN sess :
        (\E c \in Endpoints(s) : HasData(c))
        => /\ BothSlotsFilled(s)
           /\ HasAck(Clients(s)[1], "CONNECTED")
           /\ HasAck(Clients(s)[2], "CONNECTED")

\* a chunk read from one endpoint was written to the other
C3_Witness ==
    \E s \in DOMAIN sess : \E c \in Endpoints(s) :
        \E i \in 1..Len(wlog[c]) : wlog[c][i].ack = "" /\ ~wlog[c][i].failed

\* C4: on the first joiner's connection WAITING is written before CONNECTED
\* and before any relayed chunk.
C4_WaitingFirst ==
    \A s \in DOMAIN sess :
        LET c == Clients(s)[1]
        IN wlog[c] # <<>> => wlog[c][1].ack = "WAITING"

\* C5 as claimed: as soon as one copy direction of a session has ended, the
\* teardown of the session can run; it does not wait for the other direction.
C5_EitherEndTearsDown ==
    \A s \in Relays :
        (rel[s].pc = "wait" /\ \E d \in Dirs : rel[s].loop[d].pc = "done")
        => ENABLED RelayClose(s)

\* relayData of s calls closeSession in this step
ClosesItsSession(s) == rel[s].pc = "wait" /\ rel'[s].pc = "done"

\* C5, amended: relayData calls closeSession only after both copy directions
\* have ended; the call leaves no session registered under the identifier and
\* has closed every endpoint of the session that was registered under it.
C5_TeardownAfterBothEnd ==
    [][\A s \in Relays :
         ClosesItsSession(s) =>
            /\ rel[s].loop[1].pc = "done" /\ rel[s].loop[2].pc = "done"
            /\ sessions'[sess[s].ID] = NoSession
            /\ LET t == sessions[sess[s].ID]
               IN t # NoSession =>
                    \A c \in Endpoints(t) : closes'[c] = closes[c] + 1]_vars

\* a session was torn down by its relay after both directions had ended, one
\* of them by a write error
C5_Witness ==
    \E s \in Relays :
        /\ rel[s].pc = "done" /\ torn[s] = <<"close">>
        /\ \A c \in Endpoints(s) : closed(c)
        /\ \E c \in Endpoints(s) : \E i \in 1..Len(wlog[c]) : wlog[c][i].failed

\* C6: a sweep removes from the registry every session, WAITING or CONNECTED,
\* that has been idle for longer than the idle timeout, and closes every
\* endpoint the session holds.
C6_SweepEvictsIdle ==
    [][cleanupSessions =>
         \A id \in SessionIDs :
            (sessions[id] # NoSession /\ idle[sessions[id]] > IdleTimeout)
            => /\ sessions'[id] = NoSession
               /\ \A c \in Endpoints(sessions[id]) : closes'[c] = closes[c] + 1]_vars

\* the sweep evicted a CONNECTED session whose HTTP endpoints it closed
C6_Witness ==
    \E s \in DOMAIN sess :
        /\ torn[s] = <<"sweep">> /\ BothSlotsFilled(s)
        /\ \A c \in Endpoints(s) : kind[c] = "http" /\ closes[c] = 1

\* the last session created under id was WAITING when the sweep evicted it
EvictedWaiting(id) ==
    \E t \in DOMAIN sess :
        /\ sess[t].ID = id
        /\ \A u \in DOMAIN sess : sess[u].ID = id => u <= t
        /\ sess[t].Clients[2] = NoConn
        /\ torn[t] # <<>> /\ torn[t][Len(torn[t])] = "sweep"

\* C7: the first join after the sweep evicted a WAITING session creates a new
\* session under the same identifier, with the joiner as its only client, and
\* the joiner is acknowledged WAITING, not CONNECTED or SESSION_FULL.
C7_FreshAfterEviction ==
    [][\A c \in Conns :
         /\ (hpc[c] = "join" /\ hpc'[c] # "join" /\ EvictedWaiting(sid[c]))
            => /\ hpc'[c] = "ackWaiting"
               /\ sessions'[sid[c]] = Len(sess) + 1
               /\ sess' = Append(sess, [ID |-> sid[c], Clients |-> <<c, NoConn>>])
         /\ (hpc[c] = "ackWaiting" /\ hpc'[c] # "ackWaiting")
            => wlog'[c] = Append(wlog[c], Ack("WAITING"))]_vars

\* a connection created the second session of an identifier after the sweep
\* had evicted the first, and was answered WAITING
C7_Witness ==
    \E c \in Conns :
        /\ hs[c] = 2 /\ sess[2].Clients[1] = c
        /\ torn[1] = <<"sweep">> /\ sess[1].Clients[2] = NoConn
        /\ Acks(c) = <<Ack("WAITING")>> /\ hpc[c] = "done"

C9_CloseSessionIdempotent ==
    \A id \in SessionIDs :
        LET once == closeSession(Registry, id)
        IN /\ sessions[id] = NoSession => once = Registry
           /\ closeSession(once, id) = once

\* relayData called closeSession when no session was registered under its
\* identifier: the sweep had evicted its session and none was created since
C9_Witness ==
    \E s \in Relays :
        /\ rel[s].pc = "done" /\ torn[s] = <<"sweep">>
        /\ s = Len(sess) /\ sessions[sess[s].ID] = NoSession
        /\ \A c \in Endpoints(s) : closes[c] = 1

\* C10: Close is called at most once on every connection.
C10_ClosedOnce == \A c \in Conns : closes[c] <= 1

\* every endpoint of a session that has left the registry is closed
C11_State ==
    \A s \in DOMAIN sess : ~Registered(s) => \A c \in Endpoints(s) : closed(c)

\* the step that removes a session calls Close on each of its endpoints
C11_Step ==
    \A s \in DOMAIN sess :
        (sessions[sess[s].ID] = s /\ sessions'[sess[s].ID] # s)
        => \A c \in Endpoints(s) : closes'[c] = closes[c] + 1

\* C11: whenever a session is removed from the registry, by closeSession or
\* by the sweep, Close is called on every endpoint stored in it, and no
\* endpoint of a removed session is open afterwards.
C11_RemovedEndpointsClosed == []C11_State /\ [][C11_Step]_vars

\* a relay that ended closed a session whose two HTTP endpoints nothing else
\* had closed
C11_Witness ==
    \E s \in DOMAIN sess :
        /\ torn[s] = <<"close">> /\ BothSlotsFilled(s)
        /\ \A c \in Endpoints(s) : kind[c] = "http" /\ closes[c] = 1

RECURSIVE Concat(_)
Concat(ss) == IF ss = <<>> THEN <<>> ELSE Head(ss) \o Concat(Tail(ss))
IsPrefix(a, b) == Len(a) <= Len(b) /\ \A i \in 1..Len(a) : a[i] = b[i]

\* the chunks copyData has written to c, the bytes of those chunks, and the
\* bytes the Reads of copyData have returned from c, all in order
Chunks(c) == SelectSeq(wlog[c], LAMBDA e : e.ack = "")
BytesWritten(c) == Concat([i \in 1..Len(Chunks(c)) |-> Chunks(c)[i].data])
BytesRead(c) == [i \in 1..sent[c] |-> 10 * c + i]

C12_State ==
    \A s \in DOMAIN sess :
        IF BothSlotsFilled(s)
        THEN \A d \in Dirs :
                /\ IsPrefix(BytesWritten(Dst(s, d)), BytesRead(Src(s, d)))
                /\ \A i \in 1..(Len(Chunks(Dst(s, d))) - 1) : ~Chunks(Dst(s, d))[i].failed
        ELSE Chunks(Clients(s)[1]) = <<>> /\ sent[Clients(s)[1]] = 0

C12_Step ==
    \A s \in Relays : \A d \in Dirs :
        (Loop(s, d).pc = "write" /\ rel'[s].loop[d].pc # "write")
        => LET c == Dst(s, d)
               e == wlog'[c][Len(wlog'[c])]
           IN /\ wlog'[c] = Append(wlog[c], e)
              /\ e.ack = "" /\ e.data = Loop(s, d).buf
              /\ e.failed => rel'[s].loop[d].pc = "done"

\* C12: in each copy direction the bytes written to the destination are at
\* every moment a prefix of the bytes read from the source; each chunk read is
\* written once, and a failed write is the last write of its loop.
C12_WrittenIsPrefixOfRead == []C12_State /\ [][C12_Step]_vars

\* a copy loop has written the chunks of the longest stream in the order it
\* read them, its last write failed and ended the loop
C12_Witness ==
    \E s \in Relays : \E d \in Dirs :
        /\ Loop(s, d).pc = "done" /\ Loop(s, d).why = "write"
        /\ Len(Chunks(Dst(s, d))) = MaxStream
        /\ Len(BytesWritten(Dst(s, d))) = MaxStream
        /\ Chunks(Dst(s, d))[MaxStream].failed

\* ------------------------------------------------- claims on the manager
\* What ReceiveFrom returns on the peer side, in a manager that has no
\* decoder for the connection yet, when its Read returns the bytes `wire`.
PeerReceives(wire) ==
    LET k == Sniff(wire)
    IN IF k = NoCompression THEN [out |-> wire, err |-> ""]
       ELSE IF Body(wire, k) = <<>> THEN [out |-> <<>>, err |-> "create"]
       ELSE LET d == NewDecoder(k, wire)
            IN IF ~WellFormed(d.src) THEN [out |-> <<>>, err |-> "decode"]
               ELSE IF Len(Inflate(d.src)) > RecvBuf THEN [out |-> <<>>, err |-> "too small"]
               ELSE [out |-> Inflate(d.src), err |-> ""]

\* C13: whatever the compression setting, the bytes a successful SendTo(id, p)
\* has written to the connection make ReceiveFrom on the peer side return p.
C13_RoundTrip ==
    \A t \in Tasks :
        (At(t, "SendTo", "done") /\ task[t].err = "")
        => task[t].wrote /\ PeerReceives(task[t].out) = [out |-> task[t].data, err |-> ""]

IsSuffix(a, b) == Len(a) <= Len(b) /\ SubSeq(b, Len(b) - Len(a) + 1, Len(b)) = a

\* C14: with a compression algorithm configured, the bytes SendTo(id, p)
\* writes to the connection are the bytes its encoder emitted up to the flush:
\* not empty, and led by the magic bytes of the configured algorithm.
C14_WritesFlushedUnit ==
    \A t \in Tasks :
        (At(t, "SendTo", "done") /\ task[t].wrote /\ compression # NoCompression)
        => /\ task[t].out # <<>>
           /\ HasHeader(task[t].out, compression)
           /\ IsSuffix(task[t].out, enc[task[t].codec].sink)

\* C15: every ReceiveFrom that returns data returns the bytes it read when
\* they carry no magic bytes, and else what they decompress to under the
\* format their magic bytes name; on each read of a connection, not only on
\* its first.
C15_DecodesEveryRead ==
    \A t \in Tasks :
        (At(t, "ReceiveFrom", "done") /\ task[t].err = "" /\ task[t].raw # <<>>)
        => task[t].out = IF Sniff(task[t].raw) = NoCompression
                         THEN task[t].raw
                         ELSE Inflate(Body(task[t].raw, Sniff(task[t].raw)))

\* the goroutines SendToAll starts in this step
Started == {u \in Tasks : ~task[u].kid /\ task'[u].kid}

C16_State ==
    fan.pc = "done" =>
        \A u \in Kids :
            /\ task[u].pc = "done" /\ task[u].data = fan.data
            /\ \/ task[u].wrote /\ (compression = NoCompression => task[u].out = fan.data)
               \/ task[u].err = "not found"
               \/ task[u].err \in {"compress", "flush"} /\ enc[task[u].codec].closed

C16_Step ==
    /\ (fan.pc = "idle" /\ fan'.pc = "wait")
       => /\ {task'[u].id : u \in Started} = Snapshot
          /\ Cardinality(Started) = Cardinality(Snapshot)
          /\ \A u \in Started : At(u, "SendTo", "lock")' /\ task'[u].data = fan'.data
    /\ \A u \in Tasks :
         (task[u].kid /\ At(u, "SendTo", "lock") /\ task'[u].pc # "lock")
         => (task'[u].err = "not found" <=> connections[task[u].id] = NoConn)

C17_NoTransportUnderLock ==
    \A t \in Tasks :
        task[t].pc \in {"read", "write"}
        => /\ mutex # t
           /\ \A u \in Tasks : At(u, "SendTo", "lock") => ENABLED SendToLock(u)

\* C18: no encoder is closed while a SendTo is between its Write and its
\* Flush on it, and no two SendTo calls are at work on the same encoder.
C18_CodecNotShared ==
    \A t \in Tasks :
        /\ At(t, "SendTo", "flush") => ~enc[task[t].codec].closed
        /\ \A u \in Tasks \ {t} :
             (task[t].pc \in {"compress", "flush"} /\ task[u].pc \in {"compress", "flush"})
             => task[t].codec # task[u].codec

\* C19: a receive loop whose ReceiveFrom returned a codec error leaves the
\* connection registered and open.
C19_CodecErrorKeepsConnection ==
    [][\A t \in Tasks :
         (At(t, "listen", "remove") /\ task[t].err \in CodecErrors /\ task'[t].pc # "remove")
         => UNCHANGED <<connections, conn>>]_vars

C20_State ==
    \A id \in IDs :
        connections[id] = NoConn => encoders[id] = NoCodec /\ decoders[id] = NoCodec

\* a step that takes an id out of the maps is one of RemoveConnection, unless
\* it is Close, which empties the three maps at once
C20_Step ==
    /\ \A id \in IDs :
         (connections[id] # NoConn /\ connections'[id] = NoConn /\ ~CallClose)
         => /\ conn'[connections[id]].closes = conn[connections[id]].closes + 1
            /\ encoders'[id] = NoCodec /\ decoders'[id] = NoCodec
            /\ encoders[id] # NoCodec => enc'[encoders[id]].closed
            /\ decoders[id] # NoCodec => dec'[decoders[id]].closed
            /\ \A other \in IDs \ {id} :
                 /\ connections'[other] = connections[other]
                 /\ encoders'[other] = encoders[other]
                 /\ decoders'[other] = decoders[other]
    /\ \A t \in Tasks :
         (At(t, "listen", "remove") /\ task'[t].pc # "remove"
          /\ connections[task[t].id] = NoConn)
         => UNCHANGED <<connections, encoders, decoders, conn, enc, dec>>

\* C20: RemoveConnection(id) closes the connection and takes id out of the
\* connection, encoder and decoder maps in one step, closing the codecs; no
\* state has an encoder or a decoder under an id that has no connection; for
\* an id that is not registered it changes nothing.
C20_RemoveIsAtomic == []C20_State /\ [][C20_Step]_vars

\* a connection that had an encoder and a decoder was removed
C20_Witness ==
    /\ \E c \in DOMAIN conn : conn[c].closes = 1
    /\ \E e \in DOMAIN enc : enc[e].closed
    /\ \E d \in DOMAIN dec : dec[d].closed
    /\ \A id \in IDs : connections[id] = NoConn

C21_State ==
    \A t \in Tasks :
        (At(t, "SendTo", "done") /\ task[t].err = "not found")
        => ~task[t].wrote /\ task[t].codec = NoCodec /\ task[t].link = NoConn

C21_Step ==
    \A t \in Tasks :
        (At(t, "SendTo", "lock") /\ task'[t].pc # "lock" /\ connections[task[t].id] = NoConn)
        => /\ task'[t].pc = "done" /\ task'[t].err = "not found"
           /\ UNCHANGED <<connections, encoders, decoders, conn, enc, dec>>

\* C21: SendTo(id, p) for an id that is not registered returns an error, makes
\* no Write call on any connection and creates no encoder; the connection,
\* encoder and decoder maps are as they were.
C21_SendToUnknownId == []C21_State /\ [][C21_Step]_vars

\* with compression configured and another id registered, a SendTo to an id
\* that is not registered has returned its error; no encoder exists
C21_Witness ==
    /\ compression # NoCompression /\ enc = <<>>
    /\ \E id \in IDs : connections[id] # NoConn
    /\ \E t \in Tasks : At(t, "SendTo", "done") /\ task[t].err = "not found"

\* C22: AddConnection(id, conn) stores conn under id; when id was registered
\* the connection it held is replaced and Close is not called on it, and the
\* entry of every other id is as it was.
C22_OverwriteKeepsPreviousOpen ==
    [][Len(conn') > Len(conn) =>
         /\ \E id \in IDs : connections' = [connections EXCEPT ![id] = Len(conn')]
         /\ \A c \in DOMAIN conn : conn'[c] = conn[c]]_vars

\* a second connection was stored under an id that held one; the first is
\* still open
C22_Witness ==
    /\ Len(conn) = 2 /\ connections[1] = 2
    /\ conn[1].closes = 0

\* the receive loops that end in this step
Ending == {t \in Tasks : task[t].loop /\ ~task'[t].loop}

C23_Step ==
    \A t \in Tasks :
        /\ (task[t].loop /\ At(t, "ReceiveFrom", "done") /\ task[t].err = "read"
             /\ task'[t] # task[t])
           => At(t, "listen", "remove")' /\ task'[t].err = "read"
        /\ (At(t, "listen", "remove") /\ task'[t] # task[t])
           => /\ t \in Ending
              /\ connections'[task[t].id] = NoConn
              /\ LET c == connections[task[t].id]
                 IN c # NoConn => conn'[c].closes = conn[c].closes + 1
        /\ (At(t, "listen", "check") /\ connections[task[t].id] = NoConn
             /\ task'[t] # task[t])
           => t \in Ending /\ UNCHANGED <<connections, conn>>
        /\ t \in Ending
           => /\ \/ At(t, "listen", "remove")
                 \/ At(t, "listen", "check") /\ connections[task[t].id] = NoConn
              /\ \A u \in Tasks \ {t} : task'[u] = task[u]

\* C23: a receive loop whose ReceiveFrom returned a read error (end of stream
\* included) removes its id from the registry, which closes the connection
\* registered under the id, and ends; a loop that finds its id no longer
\* registered ends; a loop ends in no other way, and the step that ends one
\* loop leaves every other loop where it is.
C23_ReadErrorEndsLoop == [][C23_Step]_vars

\* a loop is about to remove its connection after a read error while the loop
\* of another connection, which has handed data to the handler, runs on
C23_Witness ==
    \E t, u \in Tasks :
        /\ At(t, "listen", "remove") /\ task[t].err = "read"
        /\ connections[task[t].id] = task[t].link /\ live(task[t].link)
        /\ task[u].loop /\ task[u].id # task[t].id /\ connections[task[u].id] # NoConn
        /\ handled = <<[id |-> task[u].id, data |-> <<7>>]>>

\* the receive loops that start in this step
Starting == {t \in Tasks : ~task[t].loop /\ task'[t].loop}

C24_Step ==
    /\ Starting # {}
       => /\ {task'[t].id : t \in Starting} = Snapshot
          /\ Cardinality(Starting) = Cardinality(Snapshot)
          /\ \A t \in Starting : At(t, "listen", "check")'
    /\ \A t \in Tasks :
         (task[t].loop /\ At(t, "ReceiveFrom", "done") /\ task'[t] # task[t])
         => handled' = IF task[t].err = "" /\ task[t].out # <<>>
                       THEN Append(handled, [id |-> task[t].id, data |-> task[t].out])
                       ELSE handled
    /\ handled' # handled
       => \E t \in Tasks : task[t].loop /\ At(t, "ReceiveFrom", "done") /\ task'[t] # task[t]

\* C24: StartListening starts one receive loop for each id registered at the
\* time of the call and no other; a loop calls handler(id, payload) once for
\* each result of ReceiveFrom that is not empty, before its next ReceiveFrom,
\* and the handler is called at no other time, so never for an empty result.
C24_OneLoopEachHandlerPerResult == [][C24_Step]_vars

\* StartListening has started the loops of two connections; one of them has
\* handed its first result to the handler, and its second result, which was
\* empty, to nobody
C24_Witness ==
    \E t, u \in Tasks :
        /\ At(t, "listen", "check") /\ task[t].err = ""
        /\ task[t].raw # <<>> /\ task[t].out = <<>>
        /\ handled = <<[id |-> task[t].id, data |-> <<7>>]>>
        /\ At(u, "listen", "check") /\ task[u].id # task[t].id /\ task[u].raw = <<>>

\* what ReceiveFrom reports: n is the length of what it left in the buffer
C26_State ==
    \A t \in Tasks :
        At(t, "ReceiveFrom", "done")
        => /\ Len(task[t].out) <= RecvBuf
           /\ task[t].err # "" => task[t].out = <<>>

C26_Step ==
    \A t \in Tasks :
        (/\ At(t, "ReceiveFrom", "decode") /\ task'[t] # task[t]
         /\ WellFormed(dec[task[t].codec].src)
         /\ Len(Inflate(dec[task[t].codec].src)) > RecvBuf)
        => At(t, "ReceiveFrom", "done")' /\ task'[t].err # "" /\ task'[t].out = <<>>

\* C26: when what its decoder produced is larger than the caller's buffer,
\* ReceiveFrom returns an error and the length 0; the length it reports is
\* never larger than the buffer, and is 0 with every error.
C26_OversizeIsError == []C26_State /\ [][C26_Step]_vars

\* a ReceiveFrom has read a unit that decompresses to more than the buffer
\* holds, and has returned the error for it
C26_Witness ==
    \E t \in Tasks :
        /\ At(t, "ReceiveFrom", "done") /\ task[t].err = "too small"
        /\ Len(Inflate(Body(task[t].raw, Sniff(task[t].raw)))) > RecvBuf

\* C28: when the relay of a session that the sweep has evicted terminates,
\* its closeSession call removes no session and closes no connection of a
\* session that was registered under the same identifier since.
C28_TeardownOwnSessionOnly ==
    [][\A s \in Relays :
         (ClosesItsSession(s) /\ torn[s] = <<"sweep">>)
         => sessions' = sessions /\ closes' = closes]_vars

\* C29: every endpoint stored in a session that is in the registry is open;
\* in particular the return of the join handler that stored it has not
\* closed it.
C29_StoredEndpointsOpen ==
    \A s \in DOMAIN sess : Registered(s) => \A c \in Endpoints(s) : ~closed(c)

\* the sweep evicts session s in this step
Evicts(s) == Registered(s) /\ torn'[s] = Append(torn[s], "sweep")

\* C30 as claimed: the sweep never evicts a session one of whose copy loops
\* has read a chunk within the idle timeout.
C30_NoEvictionAfterRecentRead ==
    [][\A s \in Relays :
         Evicts(s) =>
            \A d \in Dirs : ~(Loop(s, d).pc = "touch" /\ Loop(s, d).age <= IdleTimeout)]_vars

\* C30, amended: the sweep evicts a session only when its LastUsed is older
\* than the idle timeout; a join that stores a connection sets LastUsed to
\* the current time; a copy loop writes a chunk only after it has set
\* LastUsed to the current time for it.
C30_EvictsByLastUsed ==
    [][/\ \A s \in DOMAIN sess : Evicts(s) => idle[s] > IdleTimeout
       /\ \A s \in Relays : \A d \in Dirs :
            /\ (Loop(s, d).pc # "write" /\ rel'[s].loop[d].pc = "write")
               => Loop(s, d).pc = "touch" /\ idle'[s] = 0
            /\ (/\ BothSlotsFilled(s)
                /\ Len(wlog'[Dst(s, d)]) > Len(wlog[Dst(s, d)])
                /\ wlog'[Dst(s, d)][Len(wlog'[Dst(s, d)])].ack = "")
               => Loop(s, d).pc = "write"
       /\ \A c \in Conns :
            (hpc[c] = "join" /\ hpc'[c] \in {"ackWaiting", "notify0"})
            => idle'[hs'[c]] = 0]_vars

\* the sweep has evicted a session that had relayed a chunk
C30_Witness ==
    \E s \in Relays :
        /\ torn[s] = <<"sweep">>
        /\ \E c \in Endpoints(s) : \E i \in 1..Len(wlog[c]) :
              wlog[c][i].ack = "" /\ ~wlog[c][i].failed

\* ------------------------------------------------ claims on the TCP pipe
\* C25: in receiver mode every connection that the accept loop has added to
\* the manager gets a receive loop, which reads what arrives on it and hands
\* it to the handler.
C25_AcceptedGetsReceiveLoop ==
    \A c \in Links :
        (mode = "receiver" /\ connections[c] # NoConn)
        ~> (\E t \in Tasks : task[t].loop /\ task[t].id = c)

\* ------------------------------------------------ claims on the UDP pipe
\* the payload datagrams: the WriteToUDP calls of handleSend
LinesSent == {i \in 1..Len(sentto) : sentto[i].by = "handleSend"}

C27_State ==
    /\ LinesSent # {} => AUTH_RESPONSE \in answers
    /\ \A i \in 1..Len(stdout) : stdout[i] # AUTH_COMMAND

\* handleReceive goes on from a datagram it has read
C27_Step ==
    (receiver.pc = "got" /\ receiver.data = AUTH_COMMAND /\ receiver'.pc # "got")
    => /\ sentto' = Append(sentto, WriteToUDP(AUTH_RESPONSE, receiver.addr, "handleAuth"))
       /\ stdout' = stdout

\* C27: handleSend writes a payload datagram only if the remote has sent
\* "OK" back to the socket that carried the "ISNP" probe; and handleReceive
\* answers each "ISNP" datagram it reads with a WriteToUDP of "OK" to the
\* source of the datagram, and writes no such datagram to standard output.
C27_AuthHandshake == []C27_State /\ [][C27_Step]_vars

\* a sender that was answered "OK" has sent a line, and has itself answered
\* an "ISNP" datagram and written another datagram to standard output
C27_Witness ==
    /\ LinesSent # {}
    /\ \E i \in 1..Len(sentto) : sentto[i].by = "handleAuth"
    /\ stdout # <<>>

\* ------------------------------------------- further claims on the relay
\* the copy loops that a step ends with a timeout of their Read
TimingOut(s) ==
    {d \in Dirs : Loop(s, d).pc = "read" /\ rel'[s].loop[d] = Stopped("timeout")}

\* C31: a copy loop of a session ends with a timeout of its Read only when
\* the LastUsed of the session is at least the idle timeout old: while one
\* direction carries traffic, the silent direction goes on.  (A deadline
\* that passes in the very unit in which LastUsed reaches the idle timeout
\* is not held against the statement.)
C31_NoTimeoutWhileInUse ==
    [][\A s \in Relays : TimingOut(s) # {} => idle[s] >= IdleTimeout]_vars

\* ----------------------------------------- further claims on the manager
\* the ids that have an encoder or a decoder, and the registered ids
WithCodec == {id \in IDs : encoders[id] # NoCodec \/ decoders[id] # NoCodec}
RegisteredIDs == {id \in IDs : connections[id] # NoConn}

C32_State == WithCodec \subseteq RegisteredIDs

\* An encoder is stored by the step that holds the lock from the lookup of
\* the connection on, a decoder by the step that gives up the lock held
\* since the lookup; the step that takes an id out of the registry takes
\* its codecs out too.
C32_Step ==
    \A id \in IDs :
        /\ (encoders'[id] # encoders[id] /\ encoders'[id] # NoCodec)
           => /\ id \in RegisteredIDs /\ connections'[id] = connections[id]
              /\ mutex = Unlocked /\ mutex' = Unlocked
              /\ \E t \in Tasks : At(t, "SendTo", "lock") /\ task[t].id = id
                                   /\ task'[t].codec = encoders'[id]
        /\ (decoders'[id] # decoders[id] /\ decoders'[id] # NoCodec)
           => /\ id \in RegisteredIDs /\ connections'[id] = connections[id]
              /\ mutex \in Tasks /\ mutex' = Unlocked
              /\ At(mutex, "ReceiveFrom", "read") /\ task[mutex].id = id
              /\ task[mutex].link = connections[id]
        /\ (id \in RegisteredIDs /\ connections'[id] = NoConn)
           => encoders'[id] = NoCodec /\ decoders'[id] = NoCodec

\* C32: in every state the ids that have an encoder or a decoder are
\* registered ids; a codec is stored for a registered id only, within the
\* lock hold that looked the connection up, and leaves the maps in the step
\* that removes its connection.
C32_CodecsOfRegisteredOnly == []C32_State /\ [][C32_Step]_vars

\* an encoder and a decoder were closed with their connection, and an id
\* has an encoder that is open
C32_Witness ==
    /\ \E e \in DOMAIN enc : enc[e].closed
    /\ \E d \in DOMAIN dec : dec[d].closed
    /\ \E id \in IDs : encoders[id] # NoCodec /\ ~enc[encoders[id]].closed

\* the encoders and decoders that were created for id and are not closed
LiveEncoders(id) == {e \in DOMAIN enc : enc[e].id = id /\ ~enc[e].closed}
LiveDecoders(id) == {d \in DOMAIN dec : dec[d].id = id /\ ~dec[d].closed}

\* C33: whatever SendTo and ReceiveFrom calls run at the same time, an id
\* has at most one encoder and at most one decoder that was created and is
\* not closed.
C33_OneLiveCodecPerId ==
    \A id \in IDs :
        /\ Cardinality(LiveEncoders(id)) <= 1
        /\ Cardinality(LiveDecoders(id)) <= 1

\* a SendTo and a ReceiveFrom are at work on the encoder and the decoder of
\* the same id, both open
C33_Witness ==
    \E t, u \in Tasks :
        /\ task[t].pc \in {"compress", "flush"} /\ At(u, "ReceiveFrom", "decode")
        /\ task[t].id = task[u].id
        /\ LiveEncoders(task[t].id) = {task[t].codec}
        /\ LiveDecoders(task[u].id) = {task[u].codec}

\* C34: the encoder a SendTo works with and the decoder a ReceiveFrom works
\* with were created for the connection that the call found under its id:
\* no call uses a codec that was created for a connection that the id held
\* before an AddConnection replaced it.
C34_CodecOfCurrentConnection ==
    \A t \in Tasks :
        /\ (task[t].op = "SendTo" /\ task[t].pc \in {"compress", "flush"})
           => enc[task[t].codec].link = task[t].link
        /\ At(t, "ReceiveFrom", "decode")
           => dec[task[t].codec].link = task[t].link

\* --------------------------------------- further claims on the TCP pipe
\* handleClient has returned for c: the connection is closed and is neither
\* in pipe.clients nor in the manager
CleanedUp(c) ==
    /\ hc[c] = "done"
    /\ c \in shut
    /\ c \notin clients
    /\ connections[c] = NoConn

\* C35: in receiver mode, with a manager or without one, an accepted
\* connection that its peer has closed is in the end closed by its handler,
\* which returns, and is deleted from pipe.clients and from the manager.
C35_ClosedClientCleanedUp ==
    \A c \in Links :
        (c \in gone /\ hc[c] \notin {"none", "add"}) ~> CleanedUp(c)

\* ------------------------------------------- the session object, again
\* C36: a session object whose two client slots are filled is not changed
\* by any step, be it of a join handler, of a copy loop, of a teardown or of
\* the sweep: its slots keep the connections they hold (its LastUsed, kept
\* apart from it as its idle time, is all that changes).
C36_FilledSessionImmutable ==
    [][\A s \in DOMAIN sess : BothSlotsFilled(s) => sess'[s] = sess[s]]_vars

\* a session with both slots filled has rejected a third connection, has
\* relayed a chunk and was removed from the registry
C36_Witness ==
    \E s \in DOMAIN sess :
        /\ BothSlotsFilled(s)
        /\ \E c \in Conns : hs[c] = s /\ HasAck(c, "SESSION_FULL")
        /\ \E d \in Dirs : Chunks(Dst(s, d)) # <<>>
        /\ ~Registered(s)

\* ------------------------------------------- claims on the HTTP adapter
\* a closed connection, whatever its buffer holds
ClosedConns == {[closed |-> TRUE, readBuf |-> buf] : buf \in Buffers}
Setters == {"SetDeadline", "SetReadDeadline", "SetWriteDeadline"}

\* Read and Write of a closed connection, for every buffer content, every
\* len(b) and whatever the request body and the response would do
C37_Closed ==
    \A c \in ClosedConns :
        /\ \A size \in Sizes, n \in 0..MaxBody :
             \A res \in BodyReads(Bytes(n), size) :
                 LET r == ReadOf(c, size, res)
                 IN r.n = 0 /\ r.err = "EOF" /\ r.conn = c /\ r.body = 0
        /\ \A b \in Writes :
             \A res \in ResponseWrites(b) :
                 LET r == WriteOf(c, b, res)
                 IN r.n = 0 /\ r.err # "" /\ r.sent = <<>>

\* a call made on the connection
C37_Step ==
    todo' # todo
    => /\ hcon.closed => hcon'.closed
       /\ (hcon.closed /\ last'.op = "Read")
          => last'.n = 0 /\ last'.err = "EOF" /\ UNCHANGED <<hcon, reqBody>>
       /\ (hcon.closed /\ last'.op = "Write")
          => last'.n = 0 /\ last'.err # "" /\ resp' = resp
       /\ last'.op = "Close" => last'.err = "" /\ hcon'.closed
       /\ last'.op \in Setters => last'.err = "" /\ UNCHANGED <<hcon, reqBody, resp>>

\* C37: once Close was called on an httpConnection every Read returns 0
\* bytes and the end of the stream, with data left in its buffer or in the
\* request body too, and every Write returns 0 bytes and an error and
\* writes nothing to the response; Close returns no error, also when it is
\* called again; the deadline setters return no error and leave the
\* connection, the request body and the response, on which the outcome of
\* every later Read and Write depends, as they are.
C37_ClosedAdapter == []C37_Closed /\ [][C37_Step]_vars

\* a Read on the closed connection has returned the end of the stream while
\* the request body still holds data, and data had reached the response
C37_Witness ==
    /\ hcon.closed
    /\ last = Result("Read", 0, "EOF")
    /\ reqBody # <<>>
    /\ resp # <<>>

\* ------------------------------------------- claims on the web interface
\* the first n elements of a sequence
FirstN(q, n) == SubSeq(q, 1, Min(Len(q), n))
\* a sequence, last element first
NewestFirst(q) == [i \in 1..Len(q) |-> q[Len(q) + 1 - i]]

\* C38: whatever calls of RecordMessage have been made, by one goroutine or
\* by several at once, the message buffer holds no more than Size messages,
\* Size being the one StartWebUI has set, and its messages are the last
\* min(k, Size) of the k messages added so far, the last added first.
C38_NewestMessagesKept ==
    web =>
        /\ messageBuffer.Size = HistorySize
        /\ Len(messageBuffer.Messages) <= messageBuffer.Size
        /\ messageBuffer.Messages = FirstN(NewestFirst(recorded), messageBuffer.Size)

\* more messages than the buffer holds were added, by more than one
\* goroutine, and a message built earlier was added later
C38_Witness ==
    /\ Len(recorded) > messageBuffer.Size
    /\ \E i, j \in 1..Len(messageBuffer.Messages) :
           /\ messageBuffer.Messages[i].From # messageBuffer.Messages[j].From
           /\ i < j
           /\ messageBuffer.Messages[i].Timestamp < messageBuffer.Messages[j].Timestamp
    /\ \E i \in 1..Len(messageBuffer.Messages) :
           Len(messageBuffer.Messages[i].Content) > DisplayLimit
====
